---- MODULE Spec2Model ----
(***************************************************************************)
(* Model of the Mindbody backend proxy (src/server.js and the earlier      *)
(* variant src/unnamed/part_000).                                          *)
(*                                                                         *)
(* Node runs one handler at a time: an action is what a handler does       *)
(* between two suspensions on upstream I/O.  A request arrives and runs up *)
(* to its first upstream call; every upstream answer resumes the handler   *)
(* up to the next upstream call or to the response.                        *)
(*                                                                         *)
(* Encoding of values                                                      *)
(*   tokens   0 is null / undefined (every falsy value); n > 0 is the      *)
(*            AccessToken of the n-th successful /usertoken/issue call     *)
(*            made with the site's credentials; n < 0 is a token the       *)
(*            browser sent in its Authorization header.                    *)
(*   time     milliseconds since the process started (Date.now() minus the *)
(*            start instant); tokenExpiry = 0 is null.                     *)
(*   status   an HTTP status; 0 is a transport failure (no response).      *)
(*   names    strings; "" is null and every other falsy name.              *)
(*   texts    an error message or payload is the sequence of its words.    *)
(***************************************************************************)
EXTENDS Integers, Sequences, FiniteSets, TLC

\* ------------------------------------------------------------- bounds ----
MaxLogins == 2
MaxTicks == 2
MaxItems == 1100
MaxSlots == 8
\* the longest item list GET /api/staff-with-availability is answered with
MaxAnswerItems == 2

\* ---------------------------------------------------- program constants ----
TOKEN_TTL == 24 * 60 * 60 * 1000
EXPIRY_BUFFER == 300000
PAGE_LIMIT == 100
OFFSET_CEILING == 1000

\* two browser requests may be in progress at once
Procs == {1, 2}
NoToken == 0
UserTokens == {-1}
\* clock advances offered to the environment: one millisecond, and the
\* time that ends one millisecond short of a fresh token's refresh point
TickSteps == {1, TOKEN_TTL - EXPIRY_BUFFER - 1}
\* lifetimes a /usertoken/issue answer may declare: one hour, seven days
Lifetimes == {60 * 60 * 1000, 7 * 24 * 60 * 60 * 1000}
TransportError == 0
LoginFailures == {TransportError, 401}
ApiStatuses == {TransportError, 200, 304, 500}
\* what the upstream may declare as TotalResults (0: the field is missing)
\* and how many bookable items it really holds
Totals == {0, 250, MaxItems}
\* how many items the upstream puts on one page
PageSizes == {30, 100}
\* the request whose pagination is followed
PagingProcs == {1}
\* the request whose response is followed through the other routes
RouteProcs == {1}
Absent == -1
\* staff members the upstream's items may name
StaffIds == {1, 2}
NoStaff == 0

VARIABLES
    now,            \* Date.now()
    ticks,          \* clock advances taken so far
    cachedToken,    \* server.js:32
    tokenExpiry,    \* server.js:33
    issued,         \* tokens the upstream has issued to the site's credentials
    loginCalls,     \* /usertoken/issue calls the upstream has received from getAccessToken
    pc,             \* where each request's handler is suspended
    route,          \* the route serving the request
    userToken,      \* req.headers.authorization
    token,          \* callMindbodyAPI's local `token`
    gatLogins,      \* login calls issued by the running getAccessToken() invocation
    response,       \* getAccessToken's local `response`: the login answer
    bearer,         \* Authorization header of the request's latest upstream call
    apiCalls,       \* upstream calls (logins apart) the request has issued
    apiStatus,      \* status of the latest upstream answer
    ret,            \* how the latest callMindbodyAPI() ended: "none", "body", "throw"
    res,            \* the HTTP response sent to the browser (status 0: none yet)
    upTotal,        \* upstream: the TotalResults it declares to this request
    upActual,       \* upstream: the bookable items it holds for this request
    upPage,         \* upstream: its page size
    upIgnore,       \* upstream: whether it ignores the offset parameter
    stage,          \* bookable-items: "first" call or a "page" of the loop
    reqOffset,      \* offset parameter of the call in flight (Absent: none)
    reqLimit,       \* limit parameter of the call in flight (Absent: none)
    allAvailabilities,  \* server.js:1130
    totalResults,   \* server.js:1131
    offset,         \* server.js:1137
    resItems,       \* Availabilities of the response body
    req,            \* what the handler reads of req.query / req.body
    reply,          \* payload of the latest upstream answer
    locals,         \* the handler's local variables that outlive a call, and
                    \* how its earlier lookups ended
    out,            \* fields of the response body beside `success`
    sent,           \* responses the handler has sent for the request
    inFlight,       \* upstream calls of the request that are awaiting their answer
    failed,         \* the request's upstream calls that have failed
    env,            \* process.env as the process found it ("": the variable is unset)
    listening       \* app.listen has been called

configVars == <<env, listening>>
cacheVars == <<cachedToken, tokenExpiry>>
clockVars == <<now, ticks>>
upVars == <<issued, loginCalls>>
callVars == <<pc, inFlight, token, gatLogins, response, bearer, apiCalls, apiStatus, ret, failed>>
reqVars == <<route, userToken, res, sent>>
upstreamVars == <<upTotal, upActual, upPage, upIgnore>>
loopVars == <<stage, reqOffset, reqLimit, allAvailabilities, totalResults, offset, resItems>>
pageVars == <<upstreamVars, loopVars>>
bodyVars == <<req, reply, locals, out>>
vars == <<configVars, clockVars, cacheVars, upVars, callVars, reqVars, pageVars, bodyVars>>

Truthy(v) == v # 0

\* ------------------------------------------------------ configuration ----
\* process.env with every required variable set, and with some unset
FullEnv ==
    [MINDBODY_SITE_ID |-> "site", MINDBODY_API_KEY |-> "key",
     MINDBODY_USERNAME |-> "user", MINDBODY_PASSWORD |-> "pass"]
Envs ==
    {FullEnv,
     [FullEnv EXCEPT !.MINDBODY_API_KEY = ""],
     [FullEnv EXCEPT !.MINDBODY_SITE_ID = ""],
     [FullEnv EXCEPT !.MINDBODY_USERNAME = ""],
     [FullEnv EXCEPT !.MINDBODY_PASSWORD = ""],
     [MINDBODY_SITE_ID |-> "", MINDBODY_API_KEY |-> "",
      MINDBODY_USERNAME |-> "", MINDBODY_PASSWORD |-> ""]}

\* process.env.X || fallback
OrElse(value, fallback) == IF value # "" THEN value ELSE fallback

\* server.js:17-23
CONFIG ==
    [siteId |-> OrElse(env.MINDBODY_SITE_ID, ""),
     apiKey |-> OrElse(env.MINDBODY_API_KEY, ""),
     username |-> OrElse(env.MINDBODY_USERNAME, ""),
     password |-> OrElse(env.MINDBODY_PASSWORD, "")]

\* part_000:12-13: the other variant falls back to a built-in key and site
MINDBODY_API_KEY == OrElse(env.MINDBODY_API_KEY, "e1acf5c4136e461991395b31edcb7cd7")
MINDBODY_SITE_ID == OrElse(env.MINDBODY_SITE_ID, "-99")

\* server.js:44-52: what the login inside getAccessToken() sends
LoginCredentials ==
    [ApiKey |-> CONFIG.apiKey, SiteId |-> CONFIG.siteId,
     Username |-> CONFIG.username, Password |-> CONFIG.password]

\* server.js:82-86 and part_000:35-39: the key and site headers of a data call
DataCredentials(p) ==
    IF route[p] \in {"staff0", "register0", "login0", "book0"}
    THEN [ApiKey |-> MINDBODY_API_KEY, SiteId |-> MINDBODY_SITE_ID]
    ELSE [ApiKey |-> CONFIG.apiKey, SiteId |-> CONFIG.siteId]
Min(a, b) == IF a < b THEN a ELSE b
Max(a, b) == IF a < b THEN b ELSE a

NoResponse == [status |-> 0, success |-> "none"]
\* nothing read, received, kept or sent yet
NoData == [kind |-> "none"]
\* getAccessToken has received no login answer
NoLogin == [status |-> Absent, AccessToken |-> NoToken, expires |-> 0]

\* The answers the upstream can give to a login: a success carries the next
\* fresh token and some declared lifetime, a failure carries neither.
LoginAnswers ==
    {[status |-> 200, AccessToken |-> issued + 1, expires |-> e] : e \in Lifetimes}
    \cup {[status |-> s, AccessToken |-> NoToken, expires |-> 0] : s \in LoginFailures}

\* axios' default validateStatus, and fetch's response.ok
Ok(status) == status >= 200 /\ status < 300

\* The upstream call a suspended handler awaits: the login with the site's
\* credentials, or the route's call at its stage and offset.
LoginCall == [call |-> "usertoken/issue", stage |-> "none", offset |-> Absent]
CurrentCall(p) ==
    IF pc[p] = "login" THEN LoginCall
    ELSE [call |-> route[p], stage |-> stage[p], offset |-> reqOffset[p]]

\* variant: a call is issued without awaiting the call before it
AnsweredNever(p) == inFlight[p]

\* `await`: a handler resumes only with the answer of the call it awaits,
\* which is then no longer in flight
Answered(p) == IF pc[p] \in {"login", "api"} THEN inFlight[p] - 1 ELSE inFlight[p]

\* the handler issues an upstream call and suspends on it
Await(p, at) ==
    /\ pc' = [pc EXCEPT ![p] = at]
    /\ inFlight' = [inFlight EXCEPT ![p] = Answered(p) + 1]

\* the handler returns
Finish(p) ==
    /\ pc' = [pc EXCEPT ![p] = "done"]
    /\ inFlight' = [inFlight EXCEPT ![p] = Answered(p)]

\* the awaited call returned its body or threw
Returned(p, outcome) ==
    /\ ret' = [ret EXCEPT ![p] = outcome]
    /\ failed' = [failed EXCEPT ![p] =
                     IF outcome = "throw" THEN @ \cup {CurrentCall(p)} ELSE @]

\* res.json / res.status(..).json
Respond(p, r) ==
    /\ res' = [res EXCEPT ![p] = r]
    /\ sent' = [sent EXCEPT ![p] = @ + 1]

\* ------------------------------------------------------ getAccessToken ----
\* variants of the cache test: one that never looks at the expiry, one that
\* still accepts the token at the refresh point, one that accepts a stale
\* cache while another request's login is in flight
CacheValidNoExpiry == Truthy(cachedToken)
CacheValidInclusive ==
    Truthy(cachedToken) /\ Truthy(tokenExpiry) /\ now <= tokenExpiry - EXPIRY_BUFFER
CacheValidOrRefreshing ==
    \/ Truthy(cachedToken) /\ Truthy(tokenExpiry) /\ now < tokenExpiry - EXPIRY_BUFFER
    \/ \E q \in Procs : pc[q] = "login"

\* server.js:40  cachedToken && tokenExpiry && Date.now() < tokenExpiry - 300000
CacheValid ==
    Truthy(cachedToken) /\ Truthy(tokenExpiry) /\ now < tokenExpiry - EXPIRY_BUFFER

\* server.js:61-63  the cache after a login answered with `resp`
StoredToken(resp) == resp.AccessToken
\* variant: the expiry follows the lifetime the upstream declares
StoredExpiryDeclared(resp) == now + resp.expires
StoredExpiry(resp) == now + TOKEN_TTL

\* server.js:75-94 with 38-59: callMindbodyAPI(endpoint, method, data, ut) up
\* to its first suspension.  With a user token, or with a valid cache, the
\* upstream request goes out at once; otherwise the login goes out.
CallMindbodyAPI(p, ut) ==
    IF Truthy(ut)
    THEN /\ token' = [token EXCEPT ![p] = ut]
         /\ bearer' = [bearer EXCEPT ![p] = ut]
         /\ apiCalls' = [apiCalls EXCEPT ![p] = @ + 1]
         /\ Await(p, "api")
         /\ gatLogins' = [gatLogins EXCEPT ![p] = 0]
         /\ UNCHANGED loginCalls
    ELSE IF CacheValid
    THEN /\ token' = [token EXCEPT ![p] = cachedToken]
         /\ bearer' = [bearer EXCEPT ![p] = cachedToken]
         /\ apiCalls' = [apiCalls EXCEPT ![p] = @ + 1]
         /\ Await(p, "api")
         /\ gatLogins' = [gatLogins EXCEPT ![p] = 0]
         /\ UNCHANGED loginCalls
    ELSE /\ loginCalls < MaxLogins
         /\ loginCalls' = loginCalls + 1
         /\ gatLogins' = [gatLogins EXCEPT ![p] = 1]
         /\ Await(p, "login")
         /\ UNCHANGED <<token, bearer, apiCalls>>

\* server.js:61-65 then 76-94: the login succeeded with `resp`; the cache is
\* written, getAccessToken returns, and callMindbodyAPI sends its request.
LoginSucceeded(p, resp) ==
    /\ cachedToken' = StoredToken(resp)
    /\ tokenExpiry' = StoredExpiry(resp)
    /\ issued' = issued + 1
    /\ response' = [response EXCEPT ![p] = resp]
    /\ token' = [token EXCEPT ![p] = StoredToken(resp)]
    /\ bearer' = [bearer EXCEPT ![p] = StoredToken(resp)]
    /\ apiCalls' = [apiCalls EXCEPT ![p] = @ + 1]
    /\ Await(p, "api")
    /\ UNCHANGED <<loginCalls, gatLogins, apiStatus, ret, failed>>

\* variant: a failed login is issued once more before giving up
LoginFailedRetry(p, resp) ==
    IF gatLogins[p] < 2 /\ loginCalls < MaxLogins
    THEN /\ response' = [response EXCEPT ![p] = resp]
         /\ loginCalls' = loginCalls + 1
         /\ gatLogins' = [gatLogins EXCEPT ![p] = @ + 1]
         /\ UNCHANGED <<pc, inFlight, ret, failed, cacheVars, issued, token, bearer, apiCalls, apiStatus>>
    ELSE /\ response' = [response EXCEPT ![p] = resp]
         /\ Returned(p, "throw")
         /\ Finish(p)
         /\ UNCHANGED <<cacheVars, issued, loginCalls, gatLogins, token, bearer,
                        apiCalls, apiStatus>>

\* variant: a failed login is swallowed and the call goes on with whatever
\* the cache holds
LoginFailedFallback(p, resp) ==
    /\ response' = [response EXCEPT ![p] = resp]
    /\ token' = [token EXCEPT ![p] = cachedToken]
    /\ bearer' = [bearer EXCEPT ![p] = cachedToken]
    /\ apiCalls' = [apiCalls EXCEPT ![p] = @ + 1]
    /\ Await(p, "api")
    /\ UNCHANGED <<ret, failed, cacheVars, issued, loginCalls, gatLogins, apiStatus>>

\* variant: a failed login clears the cache
LoginFailedClears(p, resp) ==
    /\ response' = [response EXCEPT ![p] = resp]
    /\ Returned(p, "throw")
    /\ Finish(p)
    /\ cachedToken' = NoToken
    /\ tokenExpiry' = 0
    /\ UNCHANGED <<issued, loginCalls, gatLogins, token, bearer, apiCalls, apiStatus>>

\* server.js:66-69: the login failed; the error is rethrown, callMindbodyAPI
\* throws it on to the route, whose handler ends.
LoginFailed(p, resp) ==
    /\ response' = [response EXCEPT ![p] = resp]
    /\ Returned(p, "throw")
    /\ Finish(p)
    /\ UNCHANGED <<cacheVars, issued, loginCalls, gatLogins, token, bearer,
                   apiCalls, apiStatus>>

\* variant: every status below 400 counts as a success
ApiOutcomeLax(status) == IF status >= 200 /\ status < 400 THEN "body" ELSE "throw"

\* server.js:94-95: axios resolves for a 2xx answer and rejects otherwise
ApiOutcome(status) == IF Ok(status) THEN "body" ELSE "throw"

\* ------------------------------------- GET /api/locations (server.js) ----
Json200 == [status |-> 200, success |-> "true"]
Json500 == [status |-> 500, success |-> "false"]
Json400 == [status |-> 400, success |-> "false"]
Json401 == [status |-> 401, success |-> "false"]
Json409 == [status |-> 409, success |-> "false"]

\* server.js:825-828
LocationsRequest(p) ==
    /\ listening
    /\ pc[p] = "idle"
    /\ UNCHANGED bodyVars
    /\ \E ut \in UserTokens \cup {NoToken} :
          /\ userToken' = [userToken EXCEPT ![p] = ut]
          /\ CallMindbodyAPI(p, ut)
    /\ route' = [route EXCEPT ![p] = "locations"]
    /\ UNCHANGED <<configVars, clockVars, cacheVars, issued, response, apiStatus, ret, failed, res, sent, pageVars>>

\* server.js:38-70 resumed, then 76-94 or the route's catch 834-840
LocationsLogin(p) ==
    /\ pc[p] = "login"
    /\ UNCHANGED bodyVars
    /\ route[p] = "locations"
    /\ \E resp \in LoginAnswers :
          IF Ok(resp.status)
          THEN LoginSucceeded(p, resp) /\ UNCHANGED <<res, sent>>
          ELSE /\ LoginFailed(p, resp)
               /\ Respond(p, Json500)
    /\ UNCHANGED <<configVars, clockVars, route, userToken, pageVars>>

\* server.js:94-95 resumed, then 830-840
LocationsAnswer(p) ==
    /\ pc[p] = "api"
    /\ UNCHANGED bodyVars
    /\ route[p] = "locations"
    /\ \E s \in ApiStatuses :
          /\ apiStatus' = [apiStatus EXCEPT ![p] = s]
          /\ Returned(p, ApiOutcome(s))
          /\ Respond(p,
                        IF ApiOutcome(s) = "body" THEN Json200 ELSE Json500)
    /\ Finish(p)
    /\ UNCHANGED <<configVars, clockVars, cacheVars, upVars, token, gatLogins, response, bearer,
                   apiCalls, route, userToken, pageVars>>

\* ------------------------------------------ GET /api/staff (part_000) ----
\* variant: the Authorization header is never set
CallMindbodyAPI0NoHeader(p, ut) ==
    /\ bearer' = [bearer EXCEPT ![p] = NoToken]
    /\ apiCalls' = [apiCalls EXCEPT ![p] = @ + 1]
    /\ Await(p, "api")

\* part_000:33-55: this variant holds no site credentials and no token cache;
\* the Authorization header is set only when the browser sent one.
CallMindbodyAPI0(p, ut) ==
    /\ bearer' = [bearer EXCEPT ![p] = IF Truthy(ut) THEN ut ELSE NoToken]
    /\ apiCalls' = [apiCalls EXCEPT ![p] = @ + 1]
    /\ Await(p, "api")

\* part_000:55-63: fetch rejects on a transport failure, a status outside
\* 2xx throws, anything else returns the parsed body
ApiOutcome0(status) ==
    IF status = TransportError THEN "throw"
    ELSE IF ~Ok(status) THEN "throw"
    ELSE "body"

Pass200 == [status |-> 200, success |-> "absent"]
Pass500 == [status |-> 500, success |-> "absent"]

\* part_000:256-260
StaffRequest0(p) ==
    /\ listening
    /\ pc[p] = "idle"
    /\ UNCHANGED bodyVars
    /\ \E ut \in UserTokens \cup {NoToken} :
          /\ userToken' = [userToken EXCEPT ![p] = ut]
          /\ CallMindbodyAPI0(p, ut)
    /\ route' = [route EXCEPT ![p] = "staff0"]
    /\ UNCHANGED <<configVars, clockVars, cacheVars, upVars, token, gatLogins, response,
                   apiStatus, ret, failed, res, sent, pageVars>>

\* part_000:55-63 resumed, then 261-270
StaffAnswer0(p) ==
    /\ pc[p] = "api"
    /\ UNCHANGED bodyVars
    /\ route[p] = "staff0"
    /\ \E s \in ApiStatuses :
          /\ apiStatus' = [apiStatus EXCEPT ![p] = s]
          /\ Returned(p, ApiOutcome0(s))
          /\ Respond(p,
                        IF ApiOutcome0(s) = "body" THEN Pass200 ELSE Pass500)
    /\ Finish(p)
    /\ UNCHANGED <<configVars, clockVars, cacheVars, upVars, token, gatLogins, response, bearer,
                   apiCalls, route, userToken, pageVars>>

\* ------------------------------ POST /api/appointments/book (server.js) ----
\* server.js:1431-1471: the appointment is built from the body and
\* callMindbodyAPI('/appointment/addappointment', 'POST', ..) is entered once
BookRequest(p) ==
    /\ listening
    /\ pc[p] = "idle"
    /\ UNCHANGED bodyVars
    /\ \E ut \in UserTokens \cup {NoToken} :
          /\ userToken' = [userToken EXCEPT ![p] = ut]
          /\ CallMindbodyAPI(p, ut)
    /\ route' = [route EXCEPT ![p] = "book"]
    /\ UNCHANGED <<configVars, clockVars, cacheVars, issued, response, apiStatus, ret, failed, res, sent, pageVars>>

\* server.js:38-70 resumed, then 76-94 or the route's catch 1481-1487
BookLogin(p) ==
    /\ pc[p] = "login"
    /\ UNCHANGED bodyVars
    /\ route[p] = "book"
    /\ \E resp \in LoginAnswers :
          IF Ok(resp.status)
          THEN LoginSucceeded(p, resp) /\ UNCHANGED <<res, sent>>
          ELSE /\ LoginFailed(p, resp)
               /\ Respond(p, Json500)
    /\ UNCHANGED <<configVars, clockVars, route, userToken, pageVars>>

\* server.js:94-95 resumed, then 1473-1487
BookAnswer(p) ==
    /\ pc[p] = "api"
    /\ UNCHANGED bodyVars
    /\ route[p] = "book"
    /\ \E s \in ApiStatuses :
          /\ apiStatus' = [apiStatus EXCEPT ![p] = s]
          /\ Returned(p, ApiOutcome(s))
          /\ Respond(p, IF ApiOutcome(s) = "body" THEN Json200 ELSE Json500)
    /\ Finish(p)
    /\ UNCHANGED <<configVars, clockVars, cacheVars, upVars, token, gatLogins, response, bearer,
                   apiCalls, route, userToken, pageVars>>

\* ------------------------------------------ POST /api/book (part_000) ----
\* part_000:303-314
BookRequest0(p) ==
    /\ listening
    /\ pc[p] = "idle"
    /\ UNCHANGED bodyVars
    /\ \E ut \in UserTokens \cup {NoToken} :
          /\ userToken' = [userToken EXCEPT ![p] = ut]
          /\ CallMindbodyAPI0(p, ut)
    /\ route' = [route EXCEPT ![p] = "book0"]
    /\ UNCHANGED <<configVars, clockVars, cacheVars, upVars, token, gatLogins, response,
                   apiStatus, ret, failed, res, sent, pageVars>>

\* variant: the catch issues the add-appointment call again
BookCatchRetry0(p) ==
    /\ CallMindbodyAPI0(p, userToken[p])
    /\ UNCHANGED <<res, sent>>

\* part_000:322-330
BookCatch0(p) ==
    /\ Respond(p, Json500)
    /\ Finish(p)
    /\ UNCHANGED <<bearer, apiCalls>>

\* part_000:55-63 resumed, then 316-330
BookAnswer0(p) ==
    /\ pc[p] = "api"
    /\ UNCHANGED bodyVars
    /\ route[p] = "book0"
    /\ \E s \in ApiStatuses :
          /\ apiStatus' = [apiStatus EXCEPT ![p] = s]
          /\ Returned(p, ApiOutcome0(s))
          /\ IF ApiOutcome0(s) = "body"
             THEN /\ Respond(p, Json200)
                  /\ Finish(p)
                  /\ UNCHANGED <<bearer, apiCalls>>
             ELSE BookCatch0(p)
    /\ UNCHANGED <<configVars, clockVars, cacheVars, upVars, token, gatLogins, response,
                   route, userToken, pageVars>>

\* ---------------------------------- GET /api/bookable-items (server.js) ----
\* The upstream's answer to /appointment/bookableitems with the given offset
\* and limit parameters: the items it holds are numbered from 1, a page
\* starts after `off` items (at the first item when the parameter is absent or
\* ignored) and holds at most the page size and at most `lim` items.
UpstreamPage(p, off, lim) ==
    LET start == IF upIgnore[p] \/ off = Absent THEN 0 ELSE off
        size == IF lim = Absent THEN upPage[p] ELSE Min(lim, upPage[p])
        k == Min(size, Max(0, upActual[p] - start))
    IN  [i \in 1 .. k |-> start + i]

\* server.js:1131  firstData.PaginationResponse?.TotalResults || allAvailabilities.length
TotalOf(declared, all) == IF Truthy(declared) THEN declared ELSE Len(all)

\* variant: the ceiling itself is still paged
LoopContinuesInclusive(off, total) == off < total /\ off <= OFFSET_CEILING

\* server.js:1140  while (offset < totalResults && offset < 1000)
LoopContinues(off, total) == off < total /\ off < OFFSET_CEILING

\* variant: items already collected are dropped from a page
AccumulateDistinct(all, pageItems) ==
    LET New(x) == \A i \in 1 .. Len(all) : all[i] # x
    IN  all \o SelectSeq(pageItems, New)

\* variant: the offset is not advanced by the page
NextOffsetStuck(off, pageItems) == off

\* server.js:1155-1156
Accumulate(all, pageItems) == all \o pageItems
NextOffset(off, pageItems) == off + Len(pageItems)

\* server.js:1209-1219
BookableRespond(p, all) ==
    /\ Respond(p, Json200)
    /\ resItems' = [resItems EXCEPT ![p] = all]

\* variant: a failed page call reaches the route's catch
PageFailedOuterCatch(p) ==
    /\ Respond(p, Json500)
    /\ UNCHANGED resItems

\* server.js:1157-1160: the loop's catch ends the loop and the handler goes
\* on to respond (1164-1219) with what it has collected
PageFailed(p) == BookableRespond(p, allAvailabilities[p])

\* server.js:1140-1149: the loop test and, when it passes, the next page call
PagingLoop(p, all, total, off) ==
    IF LoopContinues(off, total)
    THEN /\ reqOffset' = [reqOffset EXCEPT ![p] = off]
         /\ reqLimit' = [reqLimit EXCEPT ![p] = PAGE_LIMIT]
         /\ stage' = [stage EXCEPT ![p] = "page"]
         /\ CallMindbodyAPI(p, userToken[p])
         /\ UNCHANGED <<res, sent, resItems>>
    ELSE /\ BookableRespond(p, all)
         /\ Finish(p)
         /\ UNCHANGED <<reqOffset, reqLimit, stage, token, bearer, apiCalls,
                        gatLogins, loginCalls>>

\* server.js:1100-1128
BookableRequest(p) ==
    /\ listening
    /\ pc[p] = "idle"
    /\ p \in PagingProcs
    /\ \E ut \in UserTokens \cup {NoToken} :
          /\ userToken' = [userToken EXCEPT ![p] = ut]
          /\ CallMindbodyAPI(p, ut)
    /\ \E t \in Totals, a \in Totals, s \in PageSizes, g \in BOOLEAN :
          /\ upTotal' = [upTotal EXCEPT ![p] = t]
          /\ upActual' = [upActual EXCEPT ![p] = a]
          /\ upPage' = [upPage EXCEPT ![p] = s]
          /\ upIgnore' = [upIgnore EXCEPT ![p] = g]
    /\ \E ids \in BOOLEAN :
          req' = [req EXCEPT ![p] = [kind |-> "query", sessionTypeIds |-> ids]]
    /\ UNCHANGED <<reply, locals, out>>
    /\ route' = [route EXCEPT ![p] = "bookable"]
    /\ stage' = [stage EXCEPT ![p] = "first"]
    /\ UNCHANGED <<configVars, clockVars, cacheVars, issued, response, apiStatus, ret, failed, res, sent,
                   reqOffset, reqLimit, allAvailabilities, totalResults, offset,
                   resItems>>

\* server.js:38-70 resumed inside the first call (1128) or a page call (1149):
\* a failed login of the first call reaches the route's catch (1221-1227), a
\* failed login of a page call reaches the loop's catch (1157-1160)
BookableLogin(p) ==
    /\ pc[p] = "login"
    /\ UNCHANGED bodyVars
    /\ route[p] = "bookable"
    /\ \E resp \in LoginAnswers :
          IF Ok(resp.status)
          THEN LoginSucceeded(p, resp) /\ UNCHANGED <<res, sent, resItems>>
          ELSE /\ LoginFailed(p, resp)
               /\ IF stage[p] = "first"
                  THEN Respond(p, Json500) /\ UNCHANGED resItems
                  ELSE PageFailed(p)
    /\ UNCHANGED <<configVars, clockVars, route, userToken, upstreamVars, stage, reqOffset,
                   reqLimit, allAvailabilities, totalResults, offset>>

\* server.js:1128-1140 and 1221-1227: the answer to the first call
BookableFirstAnswer(p) ==
    /\ pc[p] = "api"
    /\ UNCHANGED bodyVars
    /\ route[p] = "bookable"
    /\ stage[p] = "first"
    /\ \E s \in ApiStatuses :
          /\ apiStatus' = [apiStatus EXCEPT ![p] = s]
          /\ Returned(p, ApiOutcome(s))
          /\ IF ApiOutcome(s) = "throw"
             THEN /\ Respond(p, Json500)
                  /\ Finish(p)
                  /\ UNCHANGED <<loopVars, token, bearer, apiCalls, gatLogins,
                                 loginCalls>>
             ELSE LET all == UpstreamPage(p, reqOffset[p], reqLimit[p])
                      total == TotalOf(upTotal[p], all)
                  IN  /\ allAvailabilities' = [allAvailabilities EXCEPT ![p] = all]
                      /\ totalResults' = [totalResults EXCEPT ![p] = total]
                      /\ IF total > Len(all)
                         THEN /\ offset' = [offset EXCEPT ![p] = Len(all)]
                              /\ PagingLoop(p, all, total, Len(all))
                         ELSE /\ BookableRespond(p, all)
                              /\ Finish(p)
                              /\ UNCHANGED <<offset, reqOffset, reqLimit, stage,
                                             token, bearer, apiCalls, gatLogins,
                                             loginCalls>>
    /\ UNCHANGED <<configVars, clockVars, cacheVars, issued, response, route, userToken,
                   upstreamVars>>

\* server.js:1149-1160: the answer to a page call of the loop
BookablePageAnswer(p) ==
    /\ pc[p] = "api"
    /\ UNCHANGED bodyVars
    /\ route[p] = "bookable"
    /\ stage[p] = "page"
    /\ \E s \in ApiStatuses :
          /\ apiStatus' = [apiStatus EXCEPT ![p] = s]
          /\ Returned(p, ApiOutcome(s))
          /\ IF ApiOutcome(s) = "throw"
             THEN /\ PageFailed(p)
                  /\ Finish(p)
                  /\ UNCHANGED <<stage, reqOffset, reqLimit, allAvailabilities,
                                 offset, token, bearer, apiCalls, gatLogins,
                                 loginCalls>>
             ELSE LET pageItems == UpstreamPage(p, reqOffset[p], reqLimit[p])
                      all == Accumulate(allAvailabilities[p], pageItems)
                      off == NextOffset(offset[p], pageItems)
                  IN  IF Len(pageItems) = 0
                      THEN /\ BookableRespond(p, allAvailabilities[p])
                           /\ Finish(p)
                           /\ UNCHANGED <<stage, reqOffset, reqLimit,
                                          allAvailabilities, offset, token, bearer,
                                          apiCalls, gatLogins, loginCalls>>
                      ELSE /\ allAvailabilities' = [allAvailabilities EXCEPT ![p] = all]
                           /\ offset' = [offset EXCEPT ![p] = off]
                           /\ PagingLoop(p, all, totalResults[p], off)
    /\ UNCHANGED <<configVars, clockVars, cacheVars, issued, response, route, userToken,
                   upstreamVars, totalResults>>

\* ------------------ staff extraction (server.js, both availability routes) ----
\* A bookable item is modelled by the two fields the extraction reads: its
\* Staff (the staff member's Id; NoStaff: the item has no Staff object) and
\* its StartDateTime (its position in the upstream's list).
ItemsOf(ids) == [i \in 1 .. Len(ids) |-> [Staff |-> ids[i], StartDateTime |-> i]]

\* the item lists the upstream may return
ItemLists == UNION {[1 .. n -> StaffIds \cup {NoStaff}] : n \in 0 .. MaxSlots}

\* Map.prototype.has on a Map kept as the sequence of its values in
\* insertion order; Map.prototype.get is the entry at the position `at`
HasStaff(staffMap, id) == \E i \in 1 .. Len(staffMap) : staffMap[i].id = id

\* server.js:1175-1194: what one item does to staffMap
BookableStaffPut(staffMap, item) ==
    IF ~Truthy(item.Staff) THEN staffMap
    ELSE LET staffId == item.Staff
             m1 == IF HasStaff(staffMap, staffId) THEN staffMap
                   ELSE Append(staffMap, [id |-> staffId, slots |-> <<>>])
             at == CHOOSE i \in 1 .. Len(m1) : m1[i].id = staffId
         IN  [m1 EXCEPT ![at].slots = Append(@, item.StartDateTime)]

\* server.js:1173-1195: staffMap after the first n items
RECURSIVE BookableStaffMap(_, _)
BookableStaffMap(items, n) ==
    IF n = 0 THEN <<>>
    ELSE BookableStaffPut(BookableStaffMap(items, n - 1), items[n])

\* server.js:1268-1288: what one item does to staffMap
AvailabilityStaffPut(staffMap, item) ==
    IF ~Truthy(item.Staff) THEN staffMap
    ELSE LET staffId == item.Staff
             m1 == IF HasStaff(staffMap, staffId) THEN staffMap
                   ELSE Append(staffMap, [id |-> staffId, availableSlotCount |-> 0,
                                          availableSlots |-> <<>>])
             at == CHOOSE i \in 1 .. Len(m1) : m1[i].id = staffId
         IN  [m1 EXCEPT ![at].availableSlotCount = @ + 1,
                        ![at].availableSlots = Append(@, item.StartDateTime)]

\* server.js:1266-1289: staffMap after the first n items
RECURSIVE AvailabilityStaffMap(_, _)
AvailabilityStaffMap(items, n) ==
    IF n = 0 THEN <<>>
    ELSE AvailabilityStaffPut(AvailabilityStaffMap(items, n - 1), items[n])

\* variant: fewest slots first
FewestSlotsFirst(a, b) == a - b

\* server.js:1204 and 1292: the comparator (a, b) => b.count - a.count
MostSlotsFirst(a, b) == b - a

\* Array.prototype.sort with that comparator on the counts `key`: the sort is
\* stable, so an entry is preceded by the entries the comparator puts before
\* it and by the earlier entries the comparator ties with it.
SortBySlots(entries, key) ==
    LET n == Len(entries)
        Before(j, i) == \/ MostSlotsFirst(key[j], key[i]) < 0
                        \/ MostSlotsFirst(key[j], key[i]) = 0 /\ j < i
        Rank(i) == 1 + Cardinality({j \in 1 .. n : Before(j, i)})
    IN  [r \in 1 .. n |-> entries[CHOOSE i \in 1 .. n : Rank(i) = r]]

\* server.js:1198-1204
BookableStaff(items) ==
    LET m == BookableStaffMap(items, Len(items))
        withCount == [i \in 1 .. Len(m) |->
                         [id |-> m[i].id, slots |-> m[i].slots,
                          availableSlots |-> Len(m[i].slots)]]
    IN  SortBySlots(withCount, [i \in 1 .. Len(m) |-> withCount[i].availableSlots])

\* server.js:1291-1292
AvailabilityStaff(items) ==
    LET m == AvailabilityStaffMap(items, Len(items))
    IN  SortBySlots(m, [i \in 1 .. Len(m) |-> m[i].availableSlotCount])

\* server.js:1174-1204 applied to the items the route has collected; the
\* response carries the list as staffWithAvailability (1217)
BookableStaffExtract(p) ==
    /\ listening
    /\ pc[p] = "idle"
    /\ \E ids \in ItemLists :
          LET items == ItemsOf(ids)
              staff == BookableStaff(items)
          IN  /\ reply' = [reply EXCEPT ![p] = [kind |-> "items", items |-> items]]
              /\ out' = [out EXCEPT ![p] =
                            [kind |-> "staff",
                             count |-> [i \in 1 .. Len(staff) |-> staff[i].availableSlots],
                             staff |-> staff]]
    /\ route' = [route EXCEPT ![p] = "bookable-staff"]
    /\ Respond(p, Json200)
    /\ Finish(p)
    /\ UNCHANGED <<configVars, clockVars, cacheVars, upVars, token, gatLogins, response, bearer,
                   apiCalls, apiStatus, ret, failed, userToken, pageVars, req, locals>>

\* server.js:1263-1292 applied to the items of the upstream answer; the
\* response carries the list as staff (1296)
AvailabilityStaffExtract(p) ==
    /\ listening
    /\ pc[p] = "idle"
    /\ \E ids \in ItemLists :
          LET items == ItemsOf(ids)
              staff == AvailabilityStaff(items)
          IN  /\ reply' = [reply EXCEPT ![p] = [kind |-> "items", items |-> items]]
              /\ out' = [out EXCEPT ![p] =
                            [kind |-> "staff",
                             count |-> [i \in 1 .. Len(staff) |-> staff[i].availableSlotCount],
                             staff |-> staff]]
    /\ route' = [route EXCEPT ![p] = "availability-staff"]
    /\ Respond(p, Json200)
    /\ Finish(p)
    /\ UNCHANGED <<configVars, clockVars, cacheVars, upVars, token, gatLogins, response, bearer,
                   apiCalls, apiStatus, ret, failed, userToken, pageVars, req, locals>>

\* ------------------------ GET /api/staff-with-availability (server.js) ----
\* the item lists the upstream may return to the route
AnswerLists == UNION {[1 .. n -> StaffIds \cup {NoStaff}] : n \in 0 .. MaxAnswerItems}

\* variant: the 400 is sent without `return` and the handler goes on
MissingParameterNoReturn(p, ut) ==
    /\ Respond(p, Json400)
    /\ CallMindbodyAPI(p, ut)

\* server.js:1241-1246  return res.status(400).json(..)
MissingParameter(p, ut) ==
    /\ Respond(p, Json400)
    /\ Finish(p)
    /\ UNCHANGED <<token, bearer, apiCalls, gatLogins, loginCalls>>

\* server.js:1236-1260
AvailabilityRequest(p) ==
    /\ listening
    /\ pc[p] = "idle"
    /\ \E ids \in BOOLEAN, ut \in UserTokens \cup {NoToken} :
          /\ req' = [req EXCEPT ![p] = [kind |-> "query", sessionTypeIds |-> ids]]
          /\ userToken' = [userToken EXCEPT ![p] = ut]
          /\ IF ~ids
             THEN MissingParameter(p, ut)
             ELSE CallMindbodyAPI(p, ut) /\ UNCHANGED <<res, sent>>
    /\ route' = [route EXCEPT ![p] = "availability"]
    /\ UNCHANGED <<configVars, clockVars, cacheVars, issued, response, apiStatus, ret, failed,
                   pageVars, reply, locals, out>>

\* server.js:38-70 resumed, then 76-94 or the route's catch 1305-1311
AvailabilityLogin(p) ==
    /\ pc[p] = "login"
    /\ UNCHANGED bodyVars
    /\ route[p] = "availability"
    /\ \E resp \in LoginAnswers :
          IF Ok(resp.status)
          THEN LoginSucceeded(p, resp) /\ UNCHANGED <<res, sent>>
          ELSE /\ LoginFailed(p, resp)
               /\ Respond(p, Json500)
    /\ UNCHANGED <<configVars, clockVars, route, userToken, pageVars>>

\* server.js:94-95 resumed, then 1262-1311.  An Availabilities list that
\* holds a null entry makes `item.Staff` (1267) throw inside forEach, and the
\* route's catch answers.
AvailabilityAnswer(p) ==
    /\ pc[p] = "api"
    /\ route[p] = "availability"
    /\ \E s \in ApiStatuses :
       \E ids \in (IF Ok(s) THEN AnswerLists ELSE {<<>>}), nullEntry \in BOOLEAN :
          LET items == ItemsOf(ids)
              staff == AvailabilityStaff(items)
          IN  /\ apiStatus' = [apiStatus EXCEPT ![p] = s]
              /\ Returned(p, ApiOutcome(s))
              /\ reply' = [reply EXCEPT ![p] =
                              [kind |-> "items", items |-> items,
                               nullEntry |-> Ok(s) /\ nullEntry]]
              /\ IF ApiOutcome(s) = "throw" \/ nullEntry
                 THEN /\ Respond(p, Json500)
                      /\ UNCHANGED out
                 ELSE /\ Respond(p, Json200)
                      /\ out' = [out EXCEPT ![p] =
                                    [kind |-> "staff",
                                     count |-> [i \in 1 .. Len(staff) |->
                                                   staff[i].availableSlotCount],
                                     staff |-> staff]]
    /\ Finish(p)
    /\ UNCHANGED <<configVars, clockVars, cacheVars, upVars, token, gatLogins, response, bearer,
                   apiCalls, route, userToken, pageVars, req, locals>>

\* ------------------------------------------------ text of error messages ----
\* A text is the sequence of its words; String.prototype.includes is modelled
\* on whole words, and toLowerCase word by word.
LowerWord(w) ==
    CASE w = "Mindbody" -> "mindbody"
      [] w = "API" -> "api"
      [] w = "Failed" -> "failed"
      [] w = "Duplicate" -> "duplicate"
      [] w = "DUPLICATE" -> "duplicate"
      [] w = "Already" -> "already"
      [] w = "Internal" -> "internal"
      [] w = "Ann@X.com" -> "ann@x.com"
      [] w = "ANN@X.COM" -> "ann@x.com"
      [] OTHER -> w

ToLowerCase(text) == [i \in 1 .. Len(text) |-> LowerWord(text[i])]

Includes(text, phrase) ==
    \E i \in 1 .. Len(text) - Len(phrase) + 1 :
        SubSeq(text, i, i + Len(phrase) - 1) = phrase

\* error payloads the upstream may send with a status outside 2xx
ErrorTexts == {<<"Internal", "error">>, <<"Duplicate", "email">>,
               <<"client", "Already", "exists">>, <<"invalid", "request">>}
\* statuses the upstream may answer a client creation with
CreateStatuses == {TransportError, 200, 400, 409, 500}
\* the payloads that may come with status s
PayloadsOf(s) == IF s = TransportError \/ Ok(s) THEN {<<>>} ELSE ErrorTexts


\* part_000:55-60: the message of the Error callMindbodyAPI throws; the
\* payload text is logged and is not part of the message.  A transport failure
\* is node-fetch's "request to <url> failed, reason: <cause>".
ErrorMessage0(status, errorText) ==
    IF status = TransportError
    THEN <<"request", "to", "/client/addclient", "failed,", "reason:", "ECONNRESET">>
    ELSE <<"Mindbody", "API", "returned", ToString(status)>>

\* ------------------------------------ POST /api/auth/register (part_000) ----
\* part_000:194-210: the route's catch
RegisterCatch(message) ==
    LET errorMessage == ToLowerCase(message)
    IN  IF \/ Includes(errorMessage, <<"409">>)
           \/ Includes(errorMessage, <<"duplicate">>)
           \/ Includes(errorMessage, <<"already", "exists">>)
        THEN Json409
        ELSE Json500

\* part_000:137-176
RegisterRequest0(p) ==
    /\ listening
    /\ pc[p] = "idle"
    /\ \E firstName, lastName, email \in BOOLEAN :
          /\ req' = [req EXCEPT ![p] = [kind |-> "register", firstName |-> firstName,
                                         lastName |-> lastName, email |-> email]]
          /\ IF ~firstName \/ ~lastName \/ ~email
             THEN /\ Respond(p, Json400)
                  /\ Finish(p)
                  /\ UNCHANGED <<bearer, apiCalls>>
             ELSE /\ CallMindbodyAPI0(p, NoToken)
                  /\ UNCHANGED <<res, sent>>
    /\ route' = [route EXCEPT ![p] = "register0"]
    /\ UNCHANGED <<configVars, clockVars, cacheVars, upVars, token, gatLogins, response,
                   apiStatus, ret, failed, userToken, pageVars, reply, locals, out>>

\* part_000:55-63 resumed, then 178-210
RegisterAnswer0(p) ==
    /\ pc[p] = "api"
    /\ route[p] = "register0"
    /\ \E s \in CreateStatuses :
       \E errorText \in PayloadsOf(s), client \in BOOLEAN :
          /\ apiStatus' = [apiStatus EXCEPT ![p] = s]
          /\ Returned(p, ApiOutcome0(s))
          /\ reply' = [reply EXCEPT ![p] =
                          [kind |-> "create", text |-> errorText,
                           Client |-> Ok(s) /\ client]]
          /\ IF ApiOutcome0(s) = "throw"
             THEN /\ locals' = [locals EXCEPT ![p] =
                                   [kind |-> "error",
                                    message |-> ErrorMessage0(s, errorText)]]
                  /\ Respond(p, RegisterCatch(ErrorMessage0(s, errorText)))
             ELSE IF client
                  THEN /\ Respond(p, Json200)
                       /\ UNCHANGED locals
                  ELSE LET message == <<"Failed", "to", "create", "client", "account">>
                       IN  /\ locals' = [locals EXCEPT ![p] =
                                            [kind |-> "error", message |-> message]]
                           /\ Respond(p, RegisterCatch(message))
    /\ Finish(p)
    /\ UNCHANGED <<configVars, clockVars, cacheVars, upVars, token, gatLogins, response, bearer,
                   apiCalls, route, userToken, pageVars, req, out>>

\* ----------------------------------------- POST /api/clients (server.js) ----
\* server.js:1660-1707
ClientCreateRequest(p) ==
    /\ listening
    /\ pc[p] = "idle"
    /\ \E ut \in UserTokens \cup {NoToken} :
          /\ userToken' = [userToken EXCEPT ![p] = ut]
          /\ CallMindbodyAPI(p, ut)
    /\ route' = [route EXCEPT ![p] = "client-create"]
    /\ req' = [req EXCEPT ![p] = [kind |-> "client"]]
    /\ UNCHANGED <<configVars, clockVars, cacheVars, issued, response, apiStatus, ret, failed, res, sent,
                   pageVars, reply, locals, out>>

\* server.js:38-70 resumed, then 76-94 or the route's catch 1715-1721
ClientCreateLogin(p) ==
    /\ pc[p] = "login"
    /\ route[p] = "client-create"
    /\ \E resp \in LoginAnswers :
          IF Ok(resp.status)
          THEN LoginSucceeded(p, resp) /\ UNCHANGED <<res, sent>>
          ELSE /\ LoginFailed(p, resp)
               /\ Respond(p, Json500)
    /\ UNCHANGED <<configVars, clockVars, route, userToken, pageVars, bodyVars>>

\* server.js:94-95 resumed, then 1708-1721
ClientCreateAnswer(p) ==
    /\ pc[p] = "api"
    /\ route[p] = "client-create"
    /\ \E s \in CreateStatuses :
       \E errorText \in PayloadsOf(s), client \in BOOLEAN :
          /\ apiStatus' = [apiStatus EXCEPT ![p] = s]
          /\ Returned(p, ApiOutcome(s))
          /\ reply' = [reply EXCEPT ![p] =
                          [kind |-> "create", text |-> errorText,
                           Client |-> Ok(s) /\ client]]
          /\ Respond(p,
                        IF ApiOutcome(s) = "body" THEN Json200 ELSE Json500)
    /\ Finish(p)
    /\ UNCHANGED <<configVars, clockVars, cacheVars, upVars, token, gatLogins, response, bearer,
                   apiCalls, route, userToken, pageVars, req, locals, out>>

\* --------------------------------------------- POST /api/auth/login ----
\* The answers the upstream can give to a login with a user's credentials: a
\* success carries that user's token, a failure (a transport failure or the
\* rejection of the credentials) carries none.
UserLoginAnswers ==
    {[status |-> 200, AccessToken |-> t] : t \in UserTokens}
    \cup {[status |-> s, AccessToken |-> NoToken] : s \in LoginFailures}

\* an axios call the handler makes itself, with the Authorization header it
\* passes (NoToken: none); the token cache takes no part in it
AxiosCall(p, authorization) ==
    /\ bearer' = [bearer EXCEPT ![p] = authorization]
    /\ apiCalls' = [apiCalls EXCEPT ![p] = @ + 1]
    /\ Await(p, "api")

\* part_000:97-113
LoginRequest0(p) ==
    /\ listening
    /\ pc[p] = "idle"
    /\ \E username, password \in BOOLEAN :
          /\ req' = [req EXCEPT ![p] = [kind |-> "login", username |-> username,
                                         password |-> password]]
          /\ IF ~username \/ ~password
             THEN /\ Respond(p, Json400)
                  /\ Finish(p)
                  /\ UNCHANGED <<bearer, apiCalls>>
             ELSE /\ CallMindbodyAPI0(p, NoToken)
                  /\ UNCHANGED <<res, sent>>
    /\ route' = [route EXCEPT ![p] = "login0"]
    /\ UNCHANGED <<configVars, clockVars, cacheVars, upVars, token, gatLogins, response,
                   apiStatus, ret, failed, userToken, pageVars, reply, locals, out>>

\* part_000:127-133: the route's catch
LoginCatch0 == Json500

\* part_000:55-63 resumed, then 113-133
LoginAnswer0(p) ==
    /\ pc[p] = "api"
    /\ route[p] = "login0"
    /\ \E data \in UserLoginAnswers :
          /\ apiStatus' = [apiStatus EXCEPT ![p] = data.status]
          /\ Returned(p, ApiOutcome0(data.status))
          /\ reply' = [reply EXCEPT ![p] =
                          [kind |-> "login", AccessToken |-> data.AccessToken]]
          /\ IF ApiOutcome0(data.status) = "throw"
             THEN /\ Respond(p, LoginCatch0)
                  /\ UNCHANGED out
             ELSE IF Truthy(data.AccessToken)
                  THEN /\ Respond(p, Json200)
                       /\ out' = [out EXCEPT ![p] =
                                     [kind |-> "login", token |-> data.AccessToken]]
                  ELSE /\ Respond(p, Json401)
                       /\ UNCHANGED out
    /\ Finish(p)
    /\ UNCHANGED <<configVars, clockVars, cacheVars, upVars, token, gatLogins, response, bearer,
                   apiCalls, route, userToken, pageVars, req, locals>>

\* server.js:792-806
AuthLoginRequest(p) ==
    /\ listening
    /\ pc[p] = "idle"
    /\ \E username, password \in BOOLEAN :
          req' = [req EXCEPT ![p] = [kind |-> "login", username |-> username,
                                      password |-> password]]
    /\ AxiosCall(p, NoToken)
    /\ route' = [route EXCEPT ![p] = "login"]
    /\ UNCHANGED <<configVars, clockVars, cacheVars, upVars, token, gatLogins, response,
                   apiStatus, ret, failed, userToken, res, sent, pageVars, reply, locals, out>>

\* server.js:796-819
AuthLoginAnswer(p) ==
    /\ pc[p] = "api"
    /\ route[p] = "login"
    /\ \E data \in UserLoginAnswers :
          /\ apiStatus' = [apiStatus EXCEPT ![p] = data.status]
          /\ Returned(p, ApiOutcome(data.status))
          /\ reply' = [reply EXCEPT ![p] =
                          [kind |-> "login", AccessToken |-> data.AccessToken]]
          /\ IF ApiOutcome(data.status) = "throw"
             THEN /\ Respond(p, Json401)
                  /\ UNCHANGED out
             ELSE /\ Respond(p, Json200)
                  /\ out' = [out EXCEPT ![p] =
                                [kind |-> "login", token |-> data.AccessToken]]
    /\ Finish(p)
    /\ UNCHANGED <<configVars, clockVars, cacheVars, upVars, token, gatLogins, response, bearer,
                   apiCalls, route, userToken, pageVars, req, locals>>

\* ---------------------------- POST /api/auth/auto-login (server.js) ----
\* variant: the handler keeps the token it obtained in the cache
DirectLoginCached(p, resp) ==
    /\ issued' = issued + 1
    /\ cachedToken' = resp.AccessToken
    /\ tokenExpiry' = now + TOKEN_TTL

\* server.js:758-779: the token of the handler's own login goes into the
\* response and nowhere else
DirectLoginSucceeded(p, resp) ==
    /\ issued' = issued + 1
    /\ UNCHANGED cacheVars

\* server.js:754-771: a login with the site's credentials by a call of the
\* handler's own, which does not go through getAccessToken
AutoLoginRequest(p) ==
    /\ listening
    /\ pc[p] = "idle"
    /\ issued < MaxLogins
    /\ Await(p, "login")
    /\ route' = [route EXCEPT ![p] = "auto-login"]
    /\ UNCHANGED <<configVars, clockVars, cacheVars, upVars, token, bearer, apiCalls, gatLogins,
                   response, apiStatus, ret, failed, userToken, res, sent, pageVars, bodyVars>>

\* server.js:773-786
AutoLoginAnswer(p) ==
    /\ pc[p] = "login"
    /\ route[p] = "auto-login"
    /\ \E resp \in LoginAnswers :
          /\ response' = [response EXCEPT ![p] = resp]
          /\ Returned(p, ApiOutcome(resp.status))
          /\ IF Ok(resp.status)
             THEN /\ DirectLoginSucceeded(p, resp)
                  /\ Respond(p, Json200)
                  /\ out' = [out EXCEPT ![p] =
                                [kind |-> "login", token |-> resp.AccessToken]]
             ELSE /\ Respond(p, Json401)
                  /\ UNCHANGED <<cacheVars, issued, out>>
    /\ Finish(p)
    /\ UNCHANGED <<configVars, clockVars, loginCalls, token, bearer, apiCalls, gatLogins,
                   apiStatus, route, userToken, pageVars, req, reply, locals>>

\* -------------------------- POST /api/clients/forgot-password (server.js) ----
\* variant: a failed upstream call is reported as an error
ForgotPasswordCatchError == Json500

\* server.js:1646-1653: the route's catch answers like the success path
ForgotPasswordCatch == Json200

\* server.js:1615-1638
ForgotPasswordRequest(p) ==
    /\ listening
    /\ pc[p] = "idle"
    /\ \E ut \in UserTokens \cup {NoToken} :
          /\ userToken' = [userToken EXCEPT ![p] = ut]
          /\ AxiosCall(p, ut)
    /\ \E email \in BOOLEAN :
          req' = [req EXCEPT ![p] = [kind |-> "forgot", email |-> email]]
    /\ route' = [route EXCEPT ![p] = "forgot-password"]
    /\ UNCHANGED <<configVars, clockVars, cacheVars, upVars, token, gatLogins, response,
                   apiStatus, ret, failed, res, sent, pageVars, reply, locals, out>>

\* server.js:1623-1654
ForgotPasswordAnswer(p) ==
    /\ pc[p] = "api"
    /\ route[p] = "forgot-password"
    /\ \E s \in ApiStatuses :
          /\ apiStatus' = [apiStatus EXCEPT ![p] = s]
          /\ Returned(p, ApiOutcome(s))
          /\ IF ApiOutcome(s) = "body"
             THEN /\ Respond(p, Json200)
                  /\ out' = [out EXCEPT ![p] = [kind |-> "forgot", message |-> "sent"]]
             ELSE /\ Respond(p, ForgotPasswordCatch)
                  /\ out' = [out EXCEPT ![p] = [kind |-> "forgot", message |-> "if it exists"]]
    /\ Finish(p)
    /\ UNCHANGED <<configVars, clockVars, cacheVars, upVars, token, gatLogins, response, bearer,
                   apiCalls, route, userToken, pageVars, req, reply, locals>>

\* --------------------------------------- GET /api/session-types (server.js) ----
\* Names are strings, "" standing for null and every other falsy name; a
\* price or a tax of 0 stands for an absent one, and NullPrice is the null
\* the response carries.
NullName == ""
NullPrice == Absent
TruthyName(name) == name # ""

\* server.js:948
ExcludedCategories == {"Appointment", "Appointments", "Service", "Services"}

\* what /site/programs may hold: program 1 is a treatment category, program 2
\* carries any of the names and schedule types
ProgramNames == {"Massage"} \cup ExcludedCategories
ProgramLists ==
    LET first == [Id |-> 1, Name |-> "Massage", ScheduleType |-> "Appointment"]
        Second == {[Id |-> 2, Name |-> n, ScheduleType |-> t] :
                      n \in ProgramNames, t \in {"Appointment", "Class"}}
    IN  {<<>>, <<first>>} \cup {<<x>> : x \in Second} \cup {<<first, x>> : x \in Second}

\* what /sale/services may hold: nothing, or a price for the service "Swedish"
ServiceLists ==
    {<<>>} \cup {<<[Name |-> "Swedish", Price |-> price, TaxIncluded |-> tax]>> :
                    price \in {0, 7, 100}, tax \in {0, 7}}

\* what /site/sessiontypes may hold: up to two session types
SessionTypeUniverse ==
    {[Name |-> n, Type |-> t, ProgramId |-> g] :
        n \in {"Swedish", "Facial"}, t \in {"Appointment", "Service", "Class"},
        g \in {1, 2}}
SessionTypeLists ==
    {<<>>} \cup {<<a>> : a \in SessionTypeUniverse}
           \cup {<<a, b>> : a, b \in SessionTypeUniverse}

\* the payloads that may come with status s
ListsOf(s, lists) == IF Ok(s) THEN lists ELSE {<<>>}

\* an object used as a map is a function on its keys; map[key] of a missing
\* key is undefined, which `||` turns into the null given
Lookup(map, key, null) == IF key \in DOMAIN map THEN map[key] ELSE null

\* server.js:855-870: programs[prog.Id] = prog.Name for the programs whose
\* ScheduleType is "Appointment"; a later entry overwrites an earlier one
ProgramsOf(list) ==
    LET Kept == {i \in 1 .. Len(list) : list[i].ScheduleType = "Appointment"}
        Last(id) == CHOOSE i \in Kept : list[i].Id = id /\ \A j \in Kept : list[j].Id = id => j <= i
    IN  [id \in {list[i].Id : i \in Kept} |-> list[Last(id)].Name]

\* server.js:889-897: servicesPrices[svc.Name] = svc.Price - (svc.TaxIncluded || 0)
\* for the services that have a Price
ServicesPricesOf(list) ==
    LET Kept == {i \in 1 .. Len(list) : Truthy(list[i].Price)}
        Last(n) == CHOOSE i \in Kept : list[i].Name = n /\ \A j \in Kept : list[j].Name = n => j <= i
    IN  [n \in {list[i].Name : i \in Kept} |->
            list[Last(n)].Price - list[Last(n)].TaxIncluded]

\* variant: every session type that has a category is kept
KeepsCategoryAny(name) == TruthyName(name)

\* server.js:977  st.CategoryName && !excludedCategories.includes(st.CategoryName)
KeepsCategory(name) == TruthyName(name) /\ name \notin ExcludedCategories

\* server.js:943-977
EnrichedTypes(sessionTypes, programs, servicesPrices) ==
    LET appointmentTypes ==
            SelectSeq(sessionTypes, LAMBDA st : st.Type = "Appointment" \/ st.Type = "Service")
        Enrich(st) ==
            LET price == Lookup(servicesPrices, st.Name, 0)
                category == Lookup(programs, st.ProgramId, NullName)
            IN  [Name |-> st.Name, Type |-> st.Type, ProgramId |-> st.ProgramId,
                 CategoryName |-> IF TruthyName(category) THEN category ELSE NullName,
                 Price |-> IF Truthy(price) THEN price ELSE NullPrice]
        mapped == [i \in 1 .. Len(appointmentTypes) |-> Enrich(appointmentTypes[i])]
    IN  SelectSeq(mapped, LAMBDA st : KeepsCategory(st.CategoryName))

\* server.js:993  [...new Set(enrichedTypes.map(st => st.CategoryName))]
RECURSIVE UniqueOf(_)
UniqueOf(names) ==
    IF names = <<>> THEN <<>>
    ELSE LET rest == UniqueOf(SubSeq(names, 1, Len(names) - 1))
             x == names[Len(names)]
         IN  IF \E i \in 1 .. Len(rest) : rest[i] = x THEN rest ELSE Append(rest, x)

FinalCategories(enrichedTypes) ==
    UniqueOf([i \in 1 .. Len(enrichedTypes) |-> enrichedTypes[i].CategoryName])

loopRest == <<reqOffset, reqLimit, allAvailabilities, totalResults, offset, resItems>>

\* server.js:846-856: up to the programs call
SessionTypesRequest(p) ==
    /\ listening
    /\ pc[p] = "idle"
    /\ \E ut \in UserTokens \cup {NoToken} :
          /\ userToken' = [userToken EXCEPT ![p] = ut]
          /\ CallMindbodyAPI(p, ut)
    /\ route' = [route EXCEPT ![p] = "session-types"]
    /\ stage' = [stage EXCEPT ![p] = "programs"]
    /\ locals' = [locals EXCEPT ![p] =
                     [kind |-> "session-types", programs |-> <<>>,
                      servicesPrices |-> <<>>, services |-> <<>>,
                      programsRet |-> "none", servicesRet |-> "none"]]
    /\ UNCHANGED <<configVars, clockVars, cacheVars, issued, response, apiStatus, ret, failed, res, sent,
                   upstreamVars, loopRest, req, reply, out>>

\* server.js:38-70 resumed inside one of the three calls: a failed login of
\* the programs call (856) or of the services call (879) is caught by that
\* lookup's own catch (871-873, 913-915) and the handler goes on to its next
\* call; a failed login of the session-types call (930) reaches the route's
\* catch (1006-1012)
SessionTypesLogin(p) ==
    /\ pc[p] = "login"
    /\ route[p] = "session-types"
    /\ \E resp \in LoginAnswers :
          IF Ok(resp.status)
          THEN LoginSucceeded(p, resp) /\ UNCHANGED <<res, sent, stage, locals>>
          ELSE IF stage[p] = "types"
          THEN /\ LoginFailed(p, resp)
               /\ Respond(p, Json500)
               /\ UNCHANGED <<stage, locals>>
          ELSE /\ response' = [response EXCEPT ![p] = resp]
               /\ Returned(p, "throw")
               /\ stage' = [stage EXCEPT ![p] =
                               IF stage[p] = "programs" THEN "services" ELSE "types"]
               /\ CallMindbodyAPI(p, userToken[p])
               /\ locals' = [locals EXCEPT ![p] =
                                IF stage[p] = "programs"
                                THEN [@ EXCEPT !.programsRet = "throw"]
                                ELSE [@ EXCEPT !.servicesRet = "throw"]]
               /\ UNCHANGED <<cacheVars, issued, apiStatus, res, sent>>
    /\ UNCHANGED <<configVars, clockVars, route, userToken, upstreamVars, loopRest, req, reply, out>>

\* server.js:856-879: the answer to the programs call, up to the services call
SessionTypesPrograms(p) ==
    /\ pc[p] = "api"
    /\ route[p] = "session-types"
    /\ stage[p] = "programs"
    /\ \E s \in ApiStatuses :
       \E list \in ListsOf(s, ProgramLists) :
          /\ apiStatus' = [apiStatus EXCEPT ![p] = s]
          /\ Returned(p, ApiOutcome(s))
          /\ reply' = [reply EXCEPT ![p] = [kind |-> "programs", list |-> list]]
          /\ locals' = [locals EXCEPT ![p].programs =
                           IF ApiOutcome(s) = "body" THEN ProgramsOf(list) ELSE @,
                                       ![p].programsRet = ApiOutcome(s)]
    /\ stage' = [stage EXCEPT ![p] = "services"]
    /\ CallMindbodyAPI(p, userToken[p])
    /\ UNCHANGED <<configVars, clockVars, cacheVars, issued, response, route, userToken, res, sent,
                   upstreamVars, loopRest, req, out>>

\* server.js:879-930: the answer to the services call, up to the
\* session-types call
SessionTypesServices(p) ==
    /\ pc[p] = "api"
    /\ route[p] = "session-types"
    /\ stage[p] = "services"
    /\ \E s \in ApiStatuses :
       \E list \in ListsOf(s, ServiceLists) :
          /\ apiStatus' = [apiStatus EXCEPT ![p] = s]
          /\ Returned(p, ApiOutcome(s))
          /\ reply' = [reply EXCEPT ![p] = [kind |-> "services", list |-> list]]
          /\ locals' = [locals EXCEPT ![p].servicesPrices =
                           IF ApiOutcome(s) = "body" THEN ServicesPricesOf(list) ELSE @,
                                       ![p].services = list,
                                       ![p].servicesRet = ApiOutcome(s)]
    /\ stage' = [stage EXCEPT ![p] = "types"]
    /\ CallMindbodyAPI(p, userToken[p])
    /\ UNCHANGED <<configVars, clockVars, cacheVars, issued, response, route, userToken, res, sent,
                   upstreamVars, loopRest, req, out>>

\* variant: a failed lookup fails the request as well
RouteCatchesAny(programsRet, servicesRet, typesRet) ==
    "throw" \in {programsRet, servicesRet, typesRet}

\* server.js:853-873, 877-915 and 1006-1012: the lookups have catches of their
\* own, so of the three calls only the session-types call can reach the
\* route's catch
RouteCatches(programsRet, servicesRet, typesRet) == typesRet = "throw"

\* server.js:930-1012: the answer to the session-types call
SessionTypesAnswer(p) ==
    /\ pc[p] = "api"
    /\ route[p] = "session-types"
    /\ stage[p] = "types"
    /\ \E s \in ApiStatuses :
       \E list \in ListsOf(s, SessionTypeLists) :
          /\ apiStatus' = [apiStatus EXCEPT ![p] = s]
          /\ Returned(p, ApiOutcome(s))
          /\ reply' = [reply EXCEPT ![p] = [kind |-> "session-types", list |-> list]]
          /\ IF RouteCatches(locals[p].programsRet, locals[p].servicesRet, ApiOutcome(s))
             THEN /\ Respond(p, Json500)
                  /\ UNCHANGED out
             ELSE LET enrichedTypes ==
                         EnrichedTypes(list, locals[p].programs, locals[p].servicesPrices)
                  IN  /\ Respond(p, Json200)
                      /\ out' = [out EXCEPT ![p] =
                                    [kind |-> "session-types",
                                     sessionTypes |-> enrichedTypes,
                                     programs |-> locals[p].programs,
                                     servicesPrices |-> locals[p].servicesPrices,
                                     categories |-> FinalCategories(enrichedTypes)]]
    /\ Finish(p)
    /\ UNCHANGED <<configVars, clockVars, cacheVars, upVars, token, gatLogins, response, bearer,
                   apiCalls, route, userToken, pageVars, req, locals>>

\* ------------------------------------------------ client search (server.js) ----
\* e-mail addresses; NullName stands for a client without Email
Emails == {"ann@x.com", "Ann@X.com", "bob@x.com"}
\* what /client/clients may return: up to two clients
ClientLists ==
    LET Client(id) == {[Id |-> id, Email |-> e] : e \in Emails \cup {NullName}}
    IN  {<<>>} \cup {<<a>> : a \in Client(1)}
               \cup {<<a, b>> : a \in Client(1), b \in Client(2)}
\* what the browser may send as username or as email filter; present is
\* FALSE when the field is missing (undefined)
Usernames ==
    {[present |-> TRUE, text |-> e] : e \in {"ann@x.com", "ANN@X.COM", "carol@x.com"}}
    \cup {[present |-> FALSE, text |-> NullName]}

\* variant: the addresses are compared as they are written
EmailMatchesExact(c, text) == TruthyName(c.Email) /\ c.Email = text

\* server.js:1514 and 1579  c.Email && c.Email.toLowerCase() === text.toLowerCase()
EmailMatches(c, text) == TruthyName(c.Email) /\ LowerWord(c.Email) = LowerWord(text)

\* text.toLowerCase() of a missing field is a TypeError; the callback reaches
\* it at the first client that has an Email
MatchThrows(clients, field) ==
    ~field.present /\ \E i \in 1 .. Len(clients) : TruthyName(clients[i].Email)

\* server.js:1513-1515  clients.filter(...)
FilterByEmail(clients, text) == SelectSeq(clients, LAMBDA c : EmailMatches(c, text))

\* variant: an unknown e-mail address is answered as a missing resource
ClientNotFound404 == [status |-> 404, success |-> "false"]

\* server.js:1594-1598
ClientNotFound == Json401

\* variant: the client is accepted only with the right password
ClientFoundWithPassword(request, found) ==
    request.username.present /\ found # <<>> /\ request.password = "secret"

\* server.js:1578-1582: `if (client)` with the client that clients.find
\* returned for the username; the password of the body is never read
ClientFound(request, found) == request.username.present /\ found # <<>>

\* --------------------------------------------- GET /api/clients (server.js) ----
\* server.js:1493-1507; the email filter is applied only when the query has
\* a non-empty email
ClientsRequest(p) ==
    /\ listening
    /\ pc[p] = "idle"
    /\ \E ut \in UserTokens \cup {NoToken} :
          /\ userToken' = [userToken EXCEPT ![p] = ut]
          /\ CallMindbodyAPI(p, ut)
    /\ \E email \in Usernames :
          req' = [req EXCEPT ![p] = [kind |-> "clients", email |-> email]]
    /\ route' = [route EXCEPT ![p] = "clients"]
    /\ UNCHANGED <<configVars, clockVars, cacheVars, issued, response, apiStatus, ret, failed, res, sent,
                   pageVars, reply, locals, out>>

\* server.js:38-70 resumed, then 76-94 or the route's catch 1523-1529
ClientsLogin(p) ==
    /\ pc[p] = "login"
    /\ route[p] = "clients"
    /\ \E resp \in LoginAnswers :
          IF Ok(resp.status)
          THEN LoginSucceeded(p, resp) /\ UNCHANGED <<res, sent>>
          ELSE /\ LoginFailed(p, resp)
               /\ Respond(p, Json500)
    /\ UNCHANGED <<configVars, clockVars, route, userToken, pageVars, bodyVars>>

\* server.js:1507-1529
ClientsAnswer(p) ==
    /\ pc[p] = "api"
    /\ route[p] = "clients"
    /\ \E s \in ApiStatuses :
       \E list \in ListsOf(s, ClientLists) :
          /\ apiStatus' = [apiStatus EXCEPT ![p] = s]
          /\ Returned(p, ApiOutcome(s))
          /\ reply' = [reply EXCEPT ![p] = [kind |-> "clients", list |-> list]]
          /\ IF ApiOutcome(s) = "throw"
             THEN /\ Respond(p, Json500)
                  /\ UNCHANGED out
             ELSE /\ Respond(p, Json200)
                  /\ out' = [out EXCEPT ![p] =
                                [kind |-> "clients",
                                 clients |-> IF req[p].email.present
                                             THEN FilterByEmail(list, req[p].email.text)
                                             ELSE list]]
    /\ Finish(p)
    /\ UNCHANGED <<configVars, clockVars, cacheVars, upVars, token, gatLogins, response, bearer,
                   apiCalls, route, userToken, pageVars, req, locals>>

\* --------------------------------------- POST /api/clients/login (server.js) ----
\* server.js:1537-1573: with a user token the search goes out at once,
\* otherwise the handler first logs in with the site's credentials, by a call
\* of its own that does not go through getAccessToken.  `token` holds the
\* handler's authToken.
ClientLoginRequest(p) ==
    /\ listening
    /\ pc[p] = "idle"
    /\ \E username \in Usernames, password \in {"secret", "other"} :
          req' = [req EXCEPT ![p] = [kind |-> "client-login", username |-> username,
                                      password |-> password]]
    /\ \E ut \in UserTokens \cup {NoToken} :
          /\ userToken' = [userToken EXCEPT ![p] = ut]
          /\ IF Truthy(ut)
             THEN /\ token' = [token EXCEPT ![p] = ut]
                  /\ AxiosCall(p, ut)
             ELSE /\ issued < MaxLogins
                  /\ Await(p, "login")
                  /\ UNCHANGED <<token, bearer, apiCalls>>
    /\ route' = [route EXCEPT ![p] = "client-login"]
    /\ UNCHANGED <<configVars, clockVars, cacheVars, upVars, gatLogins, response, apiStatus, ret, failed,
                   res, sent, pageVars, reply, locals, out>>

\* server.js:1547-1573 or the route's catch 1603-1608: the answer to the
\* handler's own login
ClientLoginToken(p) ==
    /\ pc[p] = "login"
    /\ route[p] = "client-login"
    /\ \E resp \in LoginAnswers :
          /\ response' = [response EXCEPT ![p] = resp]
          /\ IF Ok(resp.status)
             THEN /\ issued' = issued + 1
                  /\ token' = [token EXCEPT ![p] = resp.AccessToken]
                  /\ AxiosCall(p, resp.AccessToken)
                  /\ UNCHANGED <<ret, failed, res, sent>>
             ELSE /\ Returned(p, "throw")
                  /\ Respond(p, Json500)
                  /\ Finish(p)
                  /\ UNCHANGED <<issued, token, bearer, apiCalls>>
    /\ UNCHANGED <<configVars, clockVars, cacheVars, loginCalls, gatLogins, apiStatus, route,
                   userToken, pageVars, bodyVars>>

\* server.js:1563-1608: the answer to the search
ClientLoginAnswer(p) ==
    /\ pc[p] = "api"
    /\ route[p] = "client-login"
    /\ \E s \in ApiStatuses :
       \E clients \in ListsOf(s, ClientLists) :
          /\ apiStatus' = [apiStatus EXCEPT ![p] = s]
          /\ Returned(p, ApiOutcome(s))
          /\ reply' = [reply EXCEPT ![p] = [kind |-> "clients", list |-> clients]]
          /\ IF ApiOutcome(s) = "throw" \/ MatchThrows(clients, req[p].username)
             THEN /\ Respond(p, Json500)
                  /\ UNCHANGED out
             ELSE LET found == FilterByEmail(clients, req[p].username.text)
                  IN  IF ClientFound(req[p], found)
                      THEN /\ Respond(p, Json200)
                           /\ out' = [out EXCEPT ![p] =
                                         [kind |-> "client-login", client |-> found[1]]]
                      ELSE /\ Respond(p, ClientNotFound)
                           /\ out' = [out EXCEPT ![p] =
                                         [kind |-> "client-login", notFound |-> TRUE]]
    /\ Finish(p)
    /\ UNCHANGED <<configVars, clockVars, cacheVars, upVars, token, gatLogins, response, bearer,
                   apiCalls, route, userToken, pageVars, req, locals>>

\* --------------------------------------------------------- environment ----
\* the response has been sent; the slot serves the next request
Close(p) ==
    /\ pc[p] = "done"
    /\ pc' = [pc EXCEPT ![p] = "idle"]
    /\ route' = [route EXCEPT ![p] = "none"]
    /\ userToken' = [userToken EXCEPT ![p] = NoToken]
    /\ token' = [token EXCEPT ![p] = NoToken]
    /\ gatLogins' = [gatLogins EXCEPT ![p] = 0]
    /\ response' = [response EXCEPT ![p] = NoLogin]
    /\ bearer' = [bearer EXCEPT ![p] = NoToken]
    /\ apiCalls' = [apiCalls EXCEPT ![p] = 0]
    /\ apiStatus' = [apiStatus EXCEPT ![p] = 0]
    /\ ret' = [ret EXCEPT ![p] = "none"]
    /\ res' = [res EXCEPT ![p] = NoResponse]
    /\ upTotal' = [upTotal EXCEPT ![p] = 0]
    /\ upActual' = [upActual EXCEPT ![p] = 0]
    /\ upPage' = [upPage EXCEPT ![p] = 0]
    /\ upIgnore' = [upIgnore EXCEPT ![p] = FALSE]
    /\ stage' = [stage EXCEPT ![p] = "none"]
    /\ reqOffset' = [reqOffset EXCEPT ![p] = Absent]
    /\ reqLimit' = [reqLimit EXCEPT ![p] = Absent]
    /\ allAvailabilities' = [allAvailabilities EXCEPT ![p] = <<>>]
    /\ totalResults' = [totalResults EXCEPT ![p] = 0]
    /\ offset' = [offset EXCEPT ![p] = 0]
    /\ resItems' = [resItems EXCEPT ![p] = <<>>]
    /\ req' = [req EXCEPT ![p] = NoData]
    /\ reply' = [reply EXCEPT ![p] = NoData]
    /\ locals' = [locals EXCEPT ![p] = NoData]
    /\ out' = [out EXCEPT ![p] = NoData]
    /\ sent' = [sent EXCEPT ![p] = 0]
    /\ inFlight' = [inFlight EXCEPT ![p] = 0]
    /\ failed' = [failed EXCEPT ![p] = {}]
    /\ UNCHANGED <<configVars, clockVars, cacheVars, upVars>>

\* time passes
Tick ==
    /\ ticks < MaxTicks
    /\ UNCHANGED bodyVars
    /\ \E d \in TickSteps : now' = now + d
    /\ ticks' = ticks + 1
    /\ UNCHANGED <<configVars, cacheVars, upVars, callVars, reqVars, pageVars>>

\* server.js:31-33 and 1952: a server that has just started.  The check of
\* the configuration (server.js:26-29) logs what is missing and nothing else;
\* the module goes on to app.listen whatever it found.
Started ==
    /\ listening = TRUE
    /\ now = 0
    /\ ticks = 0
    /\ cachedToken = NoToken
    /\ tokenExpiry = 0
    /\ issued = 0
    /\ loginCalls = 0
    /\ pc = [p \in Procs |-> "idle"]
    /\ route = [p \in Procs |-> "none"]
    /\ userToken = [p \in Procs |-> NoToken]
    /\ token = [p \in Procs |-> NoToken]
    /\ gatLogins = [p \in Procs |-> 0]
    /\ response = [p \in Procs |-> NoLogin]
    /\ bearer = [p \in Procs |-> NoToken]
    /\ apiCalls = [p \in Procs |-> 0]
    /\ apiStatus = [p \in Procs |-> 0]
    /\ ret = [p \in Procs |-> "none"]
    /\ res = [p \in Procs |-> NoResponse]
    /\ upTotal = [p \in Procs |-> 0]
    /\ upActual = [p \in Procs |-> 0]
    /\ upPage = [p \in Procs |-> 0]
    /\ upIgnore = [p \in Procs |-> FALSE]
    /\ stage = [p \in Procs |-> "none"]
    /\ reqOffset = [p \in Procs |-> Absent]
    /\ reqLimit = [p \in Procs |-> Absent]
    /\ allAvailabilities = [p \in Procs |-> <<>>]
    /\ totalResults = [p \in Procs |-> 0]
    /\ offset = [p \in Procs |-> 0]
    /\ resItems = [p \in Procs |-> <<>>]
    /\ req = [p \in Procs |-> NoData]
    /\ reply = [p \in Procs |-> NoData]
    /\ locals = [p \in Procs |-> NoData]
    /\ out = [p \in Procs |-> NoData]
    /\ sent = [p \in Procs |-> 0]
    /\ inFlight = [p \in Procs |-> 0]
    /\ failed = [p \in Procs |-> {}]

\* a server started with every value of its configuration set
Init == env = FullEnv /\ Started

\* a server started with any environment
InitAnyEnv == env \in Envs /\ Started

\* the token cache under concurrent requests and passing time
Next ==
    \/ \E p \in Procs : LocationsRequest(p)
    \/ \E p \in Procs : LocationsLogin(p)
    \/ \E p \in Procs : LocationsAnswer(p)
    \/ \E p \in Procs : StaffRequest0(p)
    \/ \E p \in Procs : StaffAnswer0(p)
    \/ \E p \in Procs : Close(p)
    \/ Tick

Spec == Init /\ [][Next]_vars

\* the same requests against a server started with any environment
SpecAnyEnv == InitAnyEnv /\ [][Next]_vars

\* one bookable-items request after another, against every upstream, while
\* time passes
NextBookable ==
    \/ \E p \in Procs : BookableRequest(p)
    \/ \E p \in Procs : BookableLogin(p)
    \/ \E p \in Procs : BookableFirstAnswer(p)
    \/ \E p \in Procs : BookablePageAnswer(p)
    \/ \E p \in Procs : Close(p)
    \/ Tick

SpecBookable == Init /\ [][NextBookable]_vars

\* the first bookable-items request of a server, against every upstream and
\* while time passes, where every upstream call the request awaits is
\* answered in the end, by its result or by a failure
NextPaging ==
    \/ \E p \in PagingProcs : BookableRequest(p)
    \/ \E p \in PagingProcs : BookableLogin(p)
    \/ \E p \in PagingProcs : BookableFirstAnswer(p)
    \/ \E p \in PagingProcs : BookablePageAnswer(p)
    \/ Tick

\* the upstream answers the call the request awaits
PagingAnswered ==
    \E p \in PagingProcs :
        \/ BookableLogin(p)
        \/ BookableFirstAnswer(p)
        \/ BookablePageAnswer(p)

SpecPagingFair == Init /\ [][NextPaging]_vars /\ WF_vars(PagingAnswered)

\* the staff extraction applied to every short list of items
NextStaff ==
    \/ \E p \in PagingProcs : BookableStaffExtract(p)
    \/ \E p \in PagingProcs : AvailabilityStaffExtract(p)
    \/ \E p \in PagingProcs : Close(p)

SpecStaff == Init /\ [][NextStaff]_vars

\* one request at a time through the routes that answer by status
NextRoutes ==
    \/ \E p \in RouteProcs : RegisterRequest0(p)
    \/ \E p \in RouteProcs : RegisterAnswer0(p)
    \/ \E p \in RouteProcs : ClientCreateRequest(p)
    \/ \E p \in RouteProcs : ClientCreateLogin(p)
    \/ \E p \in RouteProcs : ClientCreateAnswer(p)
    \/ \E p \in RouteProcs : LoginRequest0(p)
    \/ \E p \in RouteProcs : LoginAnswer0(p)
    \/ \E p \in RouteProcs : AuthLoginRequest(p)
    \/ \E p \in RouteProcs : AutoLoginRequest(p)
    \/ \E p \in RouteProcs : AutoLoginAnswer(p)
    \/ \E p \in RouteProcs : AuthLoginAnswer(p)
    \/ \E p \in RouteProcs : ForgotPasswordRequest(p)
    \/ \E p \in RouteProcs : ForgotPasswordAnswer(p)
    \/ \E p \in RouteProcs : ClientsRequest(p)
    \/ \E p \in RouteProcs : ClientsLogin(p)
    \/ \E p \in RouteProcs : ClientsAnswer(p)
    \/ \E p \in RouteProcs : ClientLoginRequest(p)
    \/ \E p \in RouteProcs : ClientLoginToken(p)
    \/ \E p \in RouteProcs : ClientLoginAnswer(p)
    \/ \E p \in RouteProcs : BookRequest(p)
    \/ \E p \in RouteProcs : BookLogin(p)
    \/ \E p \in RouteProcs : BookAnswer(p)
    \/ \E p \in RouteProcs : BookRequest0(p)
    \/ \E p \in RouteProcs : BookAnswer0(p)
    \/ \E p \in RouteProcs : Close(p)

SpecRoutes == Init /\ [][NextRoutes]_vars

\* one request at a time through GET /api/session-types
NextSessionTypes ==
    \/ \E p \in RouteProcs : SessionTypesRequest(p)
    \/ \E p \in RouteProcs : SessionTypesLogin(p)
    \/ \E p \in RouteProcs : SessionTypesPrograms(p)
    \/ \E p \in RouteProcs : SessionTypesServices(p)
    \/ \E p \in RouteProcs : SessionTypesAnswer(p)
    \/ \E p \in RouteProcs : Close(p)

SpecSessionTypes == Init /\ [][NextSessionTypes]_vars

\* two client logins side by side, each with its own credentials and its
\* own upstream answers
NextClientLogins ==
    \/ \E p \in Procs : ClientLoginRequest(p)
    \/ \E p \in Procs : ClientLoginToken(p)
    \/ \E p \in Procs : ClientLoginAnswer(p)

SpecClientLogins == Init /\ [][NextClientLogins]_vars

\* one request at a time through GET /api/bookable-items, GET
\* /api/staff-with-availability or the registration of part_000, where every
\* upstream call a request awaits is answered in the end, by its result or by
\* a failure
NextResponses ==
    \/ \E p \in PagingProcs : BookableRequest(p)
    \/ \E p \in PagingProcs : BookableLogin(p)
    \/ \E p \in PagingProcs : BookableFirstAnswer(p)
    \/ \E p \in PagingProcs : BookablePageAnswer(p)
    \/ \E p \in PagingProcs : AvailabilityRequest(p)
    \/ \E p \in PagingProcs : AvailabilityLogin(p)
    \/ \E p \in PagingProcs : AvailabilityAnswer(p)
    \/ \E p \in PagingProcs : RegisterRequest0(p)
    \/ \E p \in PagingProcs : RegisterAnswer0(p)
    \/ \E p \in PagingProcs : Close(p)

\* the upstream answers the call a request awaits
ResponsesAnswered ==
    \E p \in PagingProcs :
        \/ BookableLogin(p)
        \/ BookableFirstAnswer(p)
        \/ BookablePageAnswer(p)
        \/ AvailabilityLogin(p)
        \/ AvailabilityAnswer(p)
        \/ RegisterAnswer0(p)

SpecResponsesFair == Init /\ [][NextResponses]_vars /\ WF_vars(ResponsesAnswered)

\* one request at a time through a booking route or GET /api/session-types
NextRequests ==
    \/ \E p \in RouteProcs : BookRequest(p)
    \/ \E p \in RouteProcs : BookLogin(p)
    \/ \E p \in RouteProcs : BookAnswer(p)
    \/ \E p \in RouteProcs : BookRequest0(p)
    \/ \E p \in RouteProcs : BookAnswer0(p)
    \/ NextSessionTypes

SpecRequests == Init /\ [][NextRequests]_vars

\* ================================================================ claims ====
\* a request of the server.js variant calls getAccessToken(): callMindbodyAPI
\* was entered without a user token (server.js:76)
EntersGetAccessToken(p) ==
    /\ pc[p] = "idle"
    /\ pc'[p] # "idle"
    /\ route'[p] = "locations"
    /\ userToken'[p] = NoToken

\* the instant the cached token was stored (server.js:63 read backwards)
StoredAt == tokenExpiry - TOKEN_TTL

\* C1 as stated: a call to getAccessToken() made within 24 hours of the moment
\* the token was stored issues no further login call, and a call made once
\* the 24 hours have passed issues one.
C1_WithinTtlNoLogin ==
    [][\A p \in Procs :
          EntersGetAccessToken(p) /\ Truthy(cachedToken) =>
             /\ now < StoredAt + TOKEN_TTL => loginCalls' = loginCalls
             /\ now >= StoredAt + TOKEN_TTL => loginCalls' = loginCalls + 1]_vars

\* C1 amended: a call to getAccessToken() made less than 24 hours minus 5
\* minutes after the moment the token was stored issues no further login
\* call, and a call made once the 24 hours have passed issues one.
C1_WithinRefreshWindowNoLogin ==
    [][\A p \in Procs :
          EntersGetAccessToken(p) /\ Truthy(cachedToken) =>
             /\ now < StoredAt + TOKEN_TTL - EXPIRY_BUFFER => loginCalls' = loginCalls
             /\ now >= StoredAt + TOKEN_TTL => loginCalls' = loginCalls + 1]_vars

\* one request was answered from the cache after time had passed and is still
\* waiting for the upstream when, after the 24 hours, another one logs in again
C1_Witness ==
    \E p, q \in Procs :
        /\ pc[p] = "api" /\ route[p] = "locations" /\ userToken[p] = NoToken
        /\ gatLogins[p] = 0 /\ token[p] = cachedToken
        /\ pc[q] = "login" /\ now >= StoredAt + TOKEN_TTL /\ Truthy(cachedToken)

\* C2: getAccessToken() returns the cached token without an upstream call
\* exactly when a token is cached and the time is strictly before the recorded
\* expiry minus 5 minutes; in every other state it issues a login call.
C2_CacheHitExactly ==
    [][\A p \in Procs :
          EntersGetAccessToken(p) =>
             IF cachedToken # NoToken /\ tokenExpiry # 0 /\ now < tokenExpiry - 300000
             THEN /\ loginCalls' = loginCalls
                  /\ gatLogins'[p] = 0
                  /\ token'[p] = cachedToken
             ELSE /\ loginCalls' = loginCalls + 1
                  /\ gatLogins'[p] = 1
                  /\ pc'[p] = "login"]_vars

\* a login is in flight although a token is cached, the clock standing exactly
\* at the expiry minus 5 minutes
C2_Witness ==
    \E p \in Procs :
        /\ pc[p] = "login"
        /\ Truthy(cachedToken)
        /\ now = tokenExpiry - EXPIRY_BUFFER

\* C3: when getAccessToken() performs a login that succeeds, the cache
\* afterwards holds the token of that login and an expiry of the completion
\* time plus 24 hours, whatever lifetime the answer declares.
C3_LoginStoresTokenAndFixedExpiry ==
    [][\A p \in Procs :
          pc[p] = "login" /\ pc'[p] = "api" =>
             /\ response'[p].status = 200
             /\ cachedToken' = response'[p].AccessToken
             /\ tokenExpiry' = now + 86400000]_vars

\* a login answered at a later time with a declared lifetime of seven days
\* has left an expiry 24 hours ahead
C3_Witness ==
    \E p \in Procs :
        /\ pc[p] = "api"
        /\ response[p].status = 200
        /\ response[p].expires = 7 * TOKEN_TTL
        /\ cachedToken = response[p].AccessToken
        /\ now > 0
        /\ tokenExpiry = now + TOKEN_TTL

\* C4: a failed login inside getAccessToken() propagates to the caller and is
\* not re-issued: callMindbodyAPI ends by throwing without sending its own
\* request, and one invocation of getAccessToken() makes at most one login.
C4_LoginFailurePropagates ==
    /\ [](\A p \in Procs : gatLogins[p] <= 1)
    /\ [][\A p \in Procs :
             pc[p] = "login" /\ response'[p].status \in LoginFailures =>
                /\ ret'[p] = "throw"
                /\ pc'[p] = "done"
                /\ apiCalls'[p] = apiCalls[p]
                /\ loginCalls' = loginCalls]_vars

\* a request has ended on a failed login after exactly one login call and no
\* other upstream call
C4_Witness ==
    \E p \in Procs :
        /\ pc[p] = "done"
        /\ response[p].status \in LoginFailures
        /\ ret[p] = "throw"
        /\ gatLogins[p] = 1
        /\ apiCalls[p] = 0
        /\ res[p].status = 500

\* C5: token refresh has no mutual exclusion: a request that finds the cache
\* empty or stale while another request's login is in flight issues its own
\* login call, and each request whose login succeeds goes on with a token.
C5_NoMutualExclusion ==
    [][\A p \in Procs :
          /\ (/\ EntersGetAccessToken(p)
              /\ ~(Truthy(cachedToken) /\ now < tokenExpiry - EXPIRY_BUFFER)
              /\ \E q \in Procs \ {p} : pc[q] = "login")
             => pc'[p] = "login" /\ loginCalls' = loginCalls + 1
          /\ pc[p] = "login" /\ pc'[p] = "api"
             => Truthy(token'[p]) /\ bearer'[p] = token'[p]]_vars

\* both requests logged in at the same instant, each with its own login call,
\* and both went on with a token
C5_Witness ==
    /\ now = 0
    /\ \A p \in Procs :
          pc[p] = "api" /\ gatLogins[p] = 1 /\ Truthy(token[p])
    /\ token[1] # token[2]
    /\ loginCalls = 2

C8_BodyOnlyFor2xx ==
    \A p \in Procs :
        /\ ret[p] = "body" => apiStatus[p] >= 200 /\ apiStatus[p] <= 299
        /\ pc[p] = "done" /\ apiCalls[p] > 0
              /\ ~(apiStatus[p] >= 200 /\ apiStatus[p] <= 299)
           => ret[p] = "throw" /\ res[p].status = 500

\* both variants have thrown: one on a 304 answer, one on a transport failure
C8_Witness ==
    \E p, q \in Procs :
        /\ pc[p] = "done" /\ route[p] = "locations"
        /\ apiStatus[p] = 304 /\ ret[p] = "throw"
        /\ pc[q] = "done" /\ route[q] = "staff0" /\ apiCalls[q] = 1
        /\ apiStatus[q] = TransportError /\ ret[q] = "throw"

\* the upstream of the pagination example: 250 items, declared as 250,
\* served 100 to a page
Example250(p) ==
    /\ route[p] = "bookable"
    /\ upTotal[p] = 250 /\ upActual[p] = 250 /\ upPage[p] = 100

\* C9: against an upstream that reports TotalResults = 250 and returns 100
\* items per page, a bookable-items request none of whose calls fails issues
\* exactly 3 calls and returns the 250 items in page order; nothing is removed
\* as a duplicate, so an upstream that repeats its first page gets all three
\* copies returned.
C9_Pagination250 ==
    \A p \in Procs :
        Example250(p) /\ pc[p] = "done" /\ ret[p] = "body" =>
            /\ res[p] = Json200
            /\ apiCalls[p] = 3
            /\ ~upIgnore[p] => resItems[p] = [i \in 1 .. 250 |-> i]
            /\ upIgnore[p] =>
                  resItems[p] = [i \in 1 .. 300 |-> ((i - 1) % 100) + 1]

\* the example has run to its response with 250 items after 3 calls
C9_Witness ==
    \E p \in Procs :
        /\ Example250(p) /\ ~upIgnore[p]
        /\ pc[p] = "done" /\ ret[p] = "body"
        /\ apiCalls[p] = 3
        /\ Len(resItems[p]) = 250

\* C10: a page call of the loop is issued only while the items fetched so far
\* are fewer than the declared total and the offset is below 1000, and it
\* carries limit 100 and an offset equal to the number of items fetched so far.
C10_PageRequests ==
    \A p \in Procs :
        route[p] = "bookable" /\ stage[p] = "page" /\ pc[p] \in {"login", "api"} =>
            /\ reqLimit[p] = 100
            /\ reqOffset[p] = Len(allAvailabilities[p])
            /\ Len(allAvailabilities[p]) < totalResults[p]
            /\ reqOffset[p] < 1000

\* the loop was left at the ceiling: every call succeeded, the last page was
\* not empty, fewer items than the declared total were fetched
C10_Witness ==
    \E p \in Procs :
        /\ route[p] = "bookable" /\ pc[p] = "done" /\ ret[p] = "body"
        /\ stage[p] = "page"
        /\ offset[p] >= 1000
        /\ Len(resItems[p]) = offset[p]
        /\ offset[p] < totalResults[p]
\* C11: a page fetch that fails after the first one ends the pagination and
\* the route still answers success true with exactly the items collected
\* before the failure; only a failure of the first fetch is answered with an
\* error.
C11_PageFailureKeepsItems ==
    /\ [](\A p \in PagingProcs :
            route[p] = "bookable" /\ res[p].status >= 400 => stage[p] = "first")
    /\ [][\A p \in PagingProcs :
            (/\ route[p] = "bookable"
             /\ pc[p] \in {"api", "login"}
             /\ pc'[p] = "done"
             /\ ret'[p] = "throw")
            => IF stage[p] = "page"
               THEN /\ res'[p] = Json200
                    /\ resItems'[p] = allAvailabilities[p]
                    /\ allAvailabilities'[p] = allAvailabilities[p]
               ELSE res'[p] = Json500]_vars

\* a page call failed after 100 items had been collected
C11_Witness ==
    \E p \in PagingProcs :
        /\ route[p] = "bookable" /\ pc[p] = "done"
        /\ stage[p] = "page" /\ ret[p] = "throw" /\ apiStatus[p] = 500
        /\ res[p] = Json200
        /\ Len(resItems[p]) = 100

\* C12: the staff list has exactly one entry per distinct staff id of the
\* items, each entry's slot count is the number of items of that staff member,
\* and the entries are in descending order of slot count; five items of one
\* staff member and three of another give two entries with counts 5 and 3.
C12_StaffDedup ==
    \A p \in PagingProcs :
        out[p].kind = "staff" =>
            LET items == reply[p].items
                staff == out[p].staff
                count == out[p].count
                ItemsOfStaff(id) == {k \in 1 .. Len(items) : items[k].Staff = id}
            IN  /\ \A i, j \in 1 .. Len(staff) : staff[i].id = staff[j].id => i = j
                /\ {staff[i].id : i \in 1 .. Len(staff)}
                     = {items[k].Staff : k \in 1 .. Len(items)} \ {NoStaff}
                /\ \A i \in 1 .. Len(staff) :
                      count[i] = Cardinality(ItemsOfStaff(staff[i].id))
                /\ \A i, j \in 1 .. Len(staff) : i < j => count[i] >= count[j]
                /\ (\E a, b \in StaffIds :
                       /\ Cardinality(ItemsOfStaff(a)) = 5
                       /\ Cardinality(ItemsOfStaff(b)) = 3
                       /\ Len(items) = 8)
                   => count = <<5, 3>>

\* three items of staff 2 followed by five of staff 1, through the
\* bookable-items extraction
C12_Witness ==
    \E p \in PagingProcs :
        /\ route[p] = "bookable-staff"
        /\ out[p].kind = "staff"
        /\ [k \in 1 .. Len(reply[p].items) |-> reply[p].items[k].Staff]
             = <<2, 2, 2, 1, 1, 1, 1, 1>>
        /\ out[p].count = <<5, 3>>
        /\ out[p].staff[1].id = 1

\* C13: when the upstream answers the registration's creation call with an
\* error whose payload contains "duplicate" in any letter case, the route
\* responds 409, whatever the upstream status.
C13_DuplicatePayloadIs409 ==
    \A p \in RouteProcs :
        (/\ route[p] = "register0"
         /\ pc[p] = "done"
         /\ reply[p].kind = "create"
         /\ ~Ok(apiStatus[p])
         /\ Includes(ToLowerCase(reply[p].text), <<"duplicate">>))
        => res[p].status = 409

\* C14: on POST /api/auth/register and on POST /api/clients an upstream 409
\* to the creation call is answered 409 and every other failure of the
\* creation call is answered 500.
C14_ConflictElse500 ==
    \A p \in RouteProcs :
        (/\ route[p] \in {"register0", "client-create"}
         /\ pc[p] = "done"
         /\ \/ ret[p] = "throw"
            \/ route[p] = "register0" /\ reply[p].kind = "create" /\ ~reply[p].Client)
        => IF reply[p].kind = "create" /\ apiStatus[p] = 409
           THEN res[p].status = 409
           ELSE res[p].status = 500

\* C15: a GET /api/bookable-items request that omits sessionTypeIds is
\* answered 400 and no upstream call is issued for it.
C15_MissingSessionTypeIds400 ==
    \A p \in PagingProcs :
        route[p] = "bookable" /\ ~req[p].sessionTypeIds
        => /\ apiCalls[p] = 0
           /\ gatLogins[p] = 0
           /\ pc[p] = "done"
           /\ res[p].status = 400

\* C16: on POST /api/auth/login a successful upstream login is answered with
\* success true and a non-empty token, and an upstream rejection of the
\* credentials is answered 401 with success false.
C16_LoginOutcome ==
    \A p \in RouteProcs :
        route[p] \in {"login0", "login"} /\ pc[p] = "done" /\ reply[p].kind = "login"
        => /\ Ok(apiStatus[p]) =>
                /\ res[p].success = "true"
                /\ out[p].kind = "login"
                /\ Truthy(out[p].token)
           /\ apiStatus[p] = 401 => res[p] = Json401

\* C17: POST /api/clients/forgot-password always answers success true with
\* no error status, whether the upstream call succeeds or fails.
C17_ForgotPasswordAlwaysSucceeds ==
    \A p \in RouteProcs :
        route[p] = "forgot-password" /\ pc[p] = "done"
        => /\ res[p].success = "true"
           /\ res[p].status = 200
           /\ out[p].kind = "forgot"

\* the upstream answered 500 and the browser was told success
C17_Witness ==
    \E p \in RouteProcs :
        /\ route[p] = "forgot-password" /\ pc[p] = "done"
        /\ apiStatus[p] = 500 /\ ret[p] = "throw"
        /\ res[p] = Json200

\* C18: in the GET /api/session-types response no returned session type and
\* no entry of the returned category list has the category name "Appointment",
\* "Appointments", "Service" or "Services".
C18_CategoryExclusion ==
    \A p \in RouteProcs :
        route[p] = "session-types" /\ out[p].kind = "session-types"
        => LET Generic == {"Appointment", "Appointments", "Service", "Services"}
           IN  /\ \A i \in 1 .. Len(out[p].sessionTypes) :
                     out[p].sessionTypes[i].CategoryName \notin Generic
               /\ \A i \in 1 .. Len(out[p].categories) :
                     out[p].categories[i] \notin Generic

\* of two appointment types, the one in program "Services" was dropped and the
\* one in program "Massage" was returned
C18_Witness ==
    \E p \in RouteProcs :
        /\ route[p] = "session-types" /\ out[p].kind = "session-types"
        /\ res[p] = Json200
        /\ Len(reply[p].list) = 2
        /\ \A i \in 1 .. 2 : reply[p].list[i].Type = "Appointment"
        /\ reply[p].list[1].ProgramId = 2
        /\ Lookup(out[p].programs, 2, NullName) = "Services"
        /\ Len(out[p].sessionTypes) = 1
        /\ out[p].categories = <<"Massage">>

\* two addresses are the same under case-insensitive comparison
SameAddress(a, b) ==
    LET Ann == {"ann@x.com", "Ann@X.com", "ANN@X.COM"}
    IN  a = b \/ (a \in Ann /\ b \in Ann)

\* C19: POST /api/clients/login reports success exactly when the upstream
\* search returned a client whose email equals the supplied username under
\* case-insensitive comparison, and then returns such a client; otherwise it
\* reports failure.
C19_ClientLoginByEmail ==
    \A p \in RouteProcs :
        route[p] = "client-login" /\ pc[p] = "done"
        => LET username == req[p].username
               clients == reply[p].list
               Matching == IF reply[p].kind = "clients" /\ ret[p] = "body" /\ username.present
                           THEN {i \in 1 .. Len(clients) :
                                    /\ clients[i].Email # NullName
                                    /\ SameAddress(clients[i].Email, username.text)}
                           ELSE {}
           IN  /\ res[p].success = "true" <=> Matching # {}
               /\ res[p].success = "true" =>
                     /\ res[p].status = 200
                     /\ \E i \in Matching : out[p].client = clients[i]
               /\ res[p].success # "true" =>
                     /\ res[p].success = "false"
                     /\ res[p].status \in {401, 500}

\* the username is written in capitals, the second client's address in mixed
\* case, and that client is returned
C19_Witness ==
    \E p \in RouteProcs :
        /\ route[p] = "client-login" /\ pc[p] = "done"
        /\ res[p] = Json200
        /\ req[p].username.text = "ANN@X.COM"
        /\ Len(reply[p].list) = 2
        /\ reply[p].list[1].Email = "bob@x.com"
        /\ out[p].client = [Id |-> 2, Email |-> "Ann@X.com"]

\* the search succeeded and none of the clients it returned has the address
\* looked for
NoMatch(p, field) ==
    /\ pc[p] = "done"
    /\ reply[p].kind = "clients"
    /\ ret[p] = "body"
    /\ field.present
    /\ \A i \in 1 .. Len(reply[p].list) :
          \/ reply[p].list[i].Email = NullName
          \/ ~SameAddress(reply[p].list[i].Email, field.text)

C21_PreTaxPrice ==
    \A p \in RouteProcs :
        route[p] = "session-types" /\ out[p].kind = "session-types"
        => \A i \in 1 .. Len(out[p].sessionTypes) :
              LET st == out[p].sessionTypes[i]
                  services == locals[p].services
                  Priced == {k \in 1 .. Len(services) :
                                services[k].Name = st.Name /\ services[k].Price # 0}
              IN  IF Priced = {}
                  THEN st.Price = NullPrice
                  ELSE \E k \in Priced :
                          st.Price = services[k].Price - services[k].TaxIncluded

\* C22: in GET /api/session-types the programs lookup and the services
\* lookup are best-effort: whenever the session-types call itself succeeds the
\* route answers success true, whatever became of the two lookups; after a
\* failed services lookup every returned Price is null, and after a failed
\* programs lookup every category name resolves to null (so that no session
\* type passes the category filter).
C22_BestEffortLookups ==
    \A p \in RouteProcs :
        route[p] = "session-types" /\ pc[p] = "done" /\ reply[p].kind = "session-types"
        => /\ ret[p] = "body" <=> res[p] = Json200
           /\ ret[p] = "throw" <=> res[p] = Json500
           /\ res[p] = Json200 /\ locals[p].servicesRet = "throw"
              => \A i \in 1 .. Len(out[p].sessionTypes) :
                    out[p].sessionTypes[i].Price = NullPrice
           /\ res[p] = Json200 /\ locals[p].programsRet = "throw"
              => /\ \A i \in 1 .. Len(reply[p].list) :
                       Lookup(out[p].programs, reply[p].list[i].ProgramId, NullName) = NullName
                 /\ out[p].sessionTypes = <<>>
                 /\ out[p].categories = <<>>

\* the services lookup failed, the programs lookup did not, and a session
\* type is returned with its category and a null Price
C22_Witness ==
    \E p \in RouteProcs :
        /\ route[p] = "session-types" /\ pc[p] = "done"
        /\ res[p] = Json200
        /\ locals[p].servicesRet = "throw"
        /\ locals[p].programsRet = "body"
        /\ Len(out[p].sessionTypes) = 1
        /\ out[p].sessionTypes[1].CategoryName = "Massage"
        /\ out[p].sessionTypes[1].Price = NullPrice


\* C23 as stated, no upstream call is retried: a call that failed within a
\* request is never in flight again for that request.
C23_NoCallIssuedAgain ==
    \A p \in Procs :
        pc[p] \in {"login", "api"} => CurrentCall(p) \notin failed[p]

\* C23, amended: a data call that failed within a request is never in flight
\* again for that request, and a booking request issues the add-appointment
\* call at most once; only the login with the site's credentials is issued
\* again, by a later callMindbodyAPI of the same request.
C23_NoDataCallIssuedAgain ==
    \A p \in Procs :
        /\ pc[p] = "api" => CurrentCall(p) \notin failed[p]
        /\ route[p] \in {"book", "book0"} =>
              /\ apiCalls[p] <= 1
              /\ pc[p] = "login" => CurrentCall(p) \notin failed[p]

\* a booking request has responded after its one add-appointment call failed
C23_Witness ==
    \E p \in Procs :
        /\ route[p] = "book"
        /\ pc[p] = "done"
        /\ apiCalls[p] = 1
        /\ [call |-> "book", stage |-> stage[p], offset |-> reqOffset[p]] \in failed[p]

C25_NoCallWithBlankCredentials ==
    \A p \in Procs :
        /\ pc[p] = "login" =>
              \A k \in DOMAIN LoginCredentials : LoginCredentials[k] # ""
        /\ pc[p] = "api" =>
              \A k \in DOMAIN DataCredentials(p) : DataCredentials(p)[k] # ""

\* the request that takes a step in getAccessToken()'s login
InGetAccessToken(p) == pc[p] = "login" /\ gatLogins[p] = 1

\* C26: the token cache is written only by a successful login inside
\* getAccessToken(), which stores the token of that login; it never holds a
\* user token, and a step of a route that logs in directly or of a request
\* that carries a user token leaves it unchanged.
C26_CacheWrittenOnlyByGetAccessToken ==
    /\ [](cachedToken \notin UserTokens)
    /\ [][cacheVars' # cacheVars =>
             \E p \in Procs :
                 /\ InGetAccessToken(p)
                 /\ pc'[p] = "api"
                 /\ Ok(response'[p].status)
                 /\ cachedToken' = response'[p].AccessToken]_vars
    /\ [][\A p \in Procs :
             /\ pc'[p] # pc[p]
             /\ \/ route'[p] \in {"auto-login", "login", "client-login"}
                \/ Truthy(userToken'[p])
             => cacheVars' = cacheVars]_vars

\* a direct login has succeeded with a fresh token while the cache still
\* holds the token of an earlier getAccessToken() login
C26_Witness ==
    \E p \in Procs :
        /\ route[p] = "auto-login"
        /\ pc[p] = "done"
        /\ res[p].status = 200
        /\ Truthy(cachedToken)
        /\ out[p].token # cachedToken

\* C27 as stated: a failed login inside getAccessToken() leaves the cache as
\* it was before the call, so that the cache is not valid after it and the
\* next call to getAccessToken() logs in again.
C27_NextCallLogsInAgain ==
    [][\A p \in Procs :
          InGetAccessToken(p) /\ response'[p].status \in LoginFailures =>
             /\ cachedToken' = cachedToken
             /\ tokenExpiry' = tokenExpiry
             /\ ~CacheValid']_vars

\* C27, amended: a failed login inside getAccessToken() neither clears nor
\* changes the cached token and expiry, and a getAccessToken() entered after
\* a failure logs in again unless the login of another request has made the
\* cache valid in the meantime.
C27_FailedLoginKeepsCache ==
    /\ [][\A p \in Procs :
             InGetAccessToken(p) /\ response'[p].status \in LoginFailures =>
                /\ cachedToken' = cachedToken
                /\ tokenExpiry' = tokenExpiry]_vars
    /\ [][\A p \in Procs :
             /\ EntersGetAccessToken(p)
             /\ ~CacheValid
             /\ \E q \in Procs : response[q].status \in LoginFailures
             => pc'[p] = "login" /\ loginCalls' = loginCalls + 1]_vars

\* a stale token is still cached after the login that should have replaced
\* it failed
C27_Witness ==
    \E p \in Procs :
        /\ pc[p] = "done"
        /\ gatLogins[p] = 1
        /\ response[p].status \in LoginFailures
        /\ Truthy(cachedToken)
        /\ now >= tokenExpiry - EXPIRY_BUFFER

C29_PasswordIgnored ==
    \A p, q \in Procs :
        /\ route[p] = "client-login" /\ pc[p] = "done"
        /\ route[q] = "client-login" /\ pc[q] = "done"
        /\ req[p].username = req[q].username
        /\ ret[p] = ret[q]
        /\ apiStatus[p] = apiStatus[q]
        /\ reply[p] = reply[q]
        => res[p] = res[q] /\ out[p] = out[q]

\* two logins with the same username and different passwords have both been
\* answered with the client the search found
C29_Witness ==
    \E p, q \in Procs :
        /\ route[p] = "client-login" /\ pc[p] = "done" /\ ret[p] = "body"
        /\ route[q] = "client-login" /\ pc[q] = "done" /\ ret[q] = "body"
        /\ req[p].username = req[q].username
        /\ req[p].password # req[q].password
        /\ reply[p] = reply[q]
        /\ res[p].status = 200
        /\ res[q].status = 200

\* C30: every request receives exactly one response: a handler never sends a
\* second response, it has sent none while it awaits an upstream call and
\* one when it has ended, whether it ended on a validation failure, an
\* upstream success, an upstream failure or an exception while reshaping,
\* and a request whose upstream calls are answered gets its response.
C30_ExactlyOneResponse ==
    /\ [](\A p \in Procs :
             /\ sent[p] <= 1
             /\ pc[p] \in {"login", "api"} => sent[p] = 0
             /\ pc[p] = "done" => sent[p] = 1 /\ res[p] # NoResponse)
    /\ \A p \in PagingProcs :
          (pc[p] \in {"login", "api"}) ~> (pc[p] = "done" /\ sent[p] = 1)

\* a staff-with-availability request was answered once with 500 after the
\* upstream call succeeded and the reshaping of its answer threw
C30_Witness ==
    \E p \in PagingProcs :
        /\ route[p] = "availability"
        /\ pc[p] = "done"
        /\ ret[p] = "body"
        /\ reply[p].nullEntry
        /\ res[p].status = 500
        /\ sent[p] = 1
====
